---- MODULE Spec2Model ----
(***************************************************************************)
(* Model of three views of the repository:                                 *)
(*   HandTrackingView  (particle view,  src/unnamed/part_000)              *)
(*   DrawingBoardView  (drawing board,  src/unnamed/part_001)              *)
(*   ImageToolsView    (compression,    src/components/ImageToolsView.tsx) *)
(*                                                                         *)
(* Numbers.  JavaScript numbers are modelled in fixed point: one unit is   *)
(* 1/SCALE pixel, every multiplication by a decimal constant is an integer *)
(* multiplication followed by a division that truncates toward zero.  A    *)
(* number is a record [nan, v]; nan = TRUE is the IEEE value NaN, which    *)
(* propagates through arithmetic and makes every comparison false.         *)
(*                                                                         *)
(* Host.  A behaviour mounts exactly one of the views (variable            *)
(* view).  Promise continuations, the loadeddata event and the animation   *)
(* frame callback are separate actions; each action runs the whole handler *)
(* between two awaits.                                                     *)
(***************************************************************************)
EXTENDS Integers, Sequences, FiniteSets, TLC

\* ------------------------------------------------------------------ bounds
MaxSessions  == 2   \* start clicks per behaviour (HandTrackingView)
MaxFrames    == 2   \* executed frames of HandTrackingView per behaviour
MaxFramesD   == 2   \* executed frames of DrawingBoardView per behaviour
MaxStamps    == 1   \* template drawings on the raster layer at a time
MaxEdits     == 4   \* inputs of the user to ImageToolsView per behaviour
MaxEditsC    == 4   \* inputs of the user to ConverterView per behaviour
MaxEditsP    == 2   \* inputs of the user to PhotoStudioView per behaviour
ClosedFrames == 30  \* frames the scripted hand stays closed
OpenFrames   == 30  \* frames the scripted hand then stays open

\* ------------------------------------------------------- program constants
SCALE         == 20    \* fixed-point units per pixel
CANVAS_WIDTH  == 640
CANVAS_HEIGHT == 480
NORM          == 16    \* normalised landmark coordinates are k/NORM

W == CANVAS_WIDTH * SCALE
H == CANVAS_HEIGHT * SCALE

\* ------------------------------------------------------------- arithmetic
Num(n) == [nan |-> FALSE, v |-> n]
NaN    == [nan |-> TRUE, v |-> 0]

\* integer division truncating toward zero
TDiv(a, b) == IF a >= 0 THEN a \div b ELSE -((-a) \div b)

RECURSIVE SqrtSearch(_, _, _)
SqrtSearch(n, lo, hi) ==
    IF lo >= hi THEN lo
    ELSE LET mid == (lo + hi + 1) \div 2
         IN  IF mid * mid <= n THEN SqrtSearch(n, mid, hi)
                               ELSE SqrtSearch(n, lo, mid - 1)

\* floor of the square root, n >= 0
ISqrt(n) == SqrtSearch(n, 0, 46340)

FAdd(a, b) == IF a.nan \/ b.nan THEN NaN ELSE Num(a.v + b.v)
FSub(a, b) == IF a.nan \/ b.nan THEN NaN ELSE Num(a.v - b.v)
\* a * (n / d) for a decimal constant n/d
FScale(a, n, d) == IF a.nan THEN NaN ELSE Num(TDiv(a.v * n, d))
\* (a / b) * c ; 0/0 is NaN.  b = 0 only arises with a = 0 (b is a distance
\* whose components are a), so the infinities of x/0 are not represented.
FDivMul(a, b, c) ==
    IF a.nan \/ b.nan \/ c.nan \/ b.v = 0 THEN NaN
    ELSE Num(TDiv(a.v * c.v, b.v))
\* Math.sqrt(dx * dx + dy * dy)
FHypot(dx, dy) ==
    IF dx.nan \/ dy.nan THEN NaN ELSE Num(ISqrt(dx.v * dx.v + dy.v * dy.v))
FLt(a, b) == ~a.nan /\ ~b.nan /\ a.v < b.v
FGt(a, b) == ~a.nan /\ ~b.nan /\ a.v > b.v

\* ------------------------------------------------------------ variables
VARIABLES
    view,               \* which view this behaviour mounts
    hasMediaDevices,    \* navigator.mediaDevices.getUserMedia exists
    strokesZeroLength,  \* the canvas paints the caps of a zero-length line
    coarseClock,        \* performance.now() is coarser than a frame interval
    \* ---- HandTrackingView
    mountedH,           \* the component is mounted
    videoRef,           \* videoRef.current (and canvasRef.current) non-null
    srcObject,          \* video.srcObject: 0 = null, else the stream id
    loadedPending,      \* a loadeddata event is due for the current srcObject
    trackLive,          \* per acquired stream: "none" | "live" | "ended"
    isCameraActive,
    isLoading,
    statusMessage,
    requestRef,         \* requestRef.current (0 = never requested)
    rafPending,         \* the callback with id requestRef is still scheduled
    handLandmarkerRef,  \* 0 = null, else number of the model instance
    pcH,                \* position of the async start chain
    streams,            \* number of streams getUserMedia has returned
    particlesRef,       \* sequence of Particle
    frames,             \* frames (predictWebcam bodies) executed so far
    lastDet,            \* detector outcome of the last executed frame
    handState,          \* handState of the last executed frame
    handCenter,         \* handCenter of the last executed frame
    errorH,             \* an exception escaped a handler
    stopsInRow,         \* consecutive stopCamera calls
    detStamp,           \* timestamp of the last detectForVideo call of the
                        \* current landmarker, relative to the call before
    frameLog,           \* what the last executed frame did, in order
    \* ---- DrawingBoardView
    db_mounted,           \* the flag "mounted" of the mount effect
    db_videoRef,          \* videoRef.current (and canvasRef.current) non-null
    db_srcObject,         \* video.srcObject: 0 = null, 1 = the stream
    db_loadedPending,     \* a loadeddata event is due
    db_trackLive,         \* tracks of the stream: "none" | "live" | "ended"
    db_isLoaded,
    db_requestRef,        \* requestRef.current (0 = never requested)
    db_rafPending,        \* the callback with id requestRef is scheduled
    db_handLandmarkerRef, \* 0 = null, 1 = the model instance
    db_pc,                \* position of init()
    db_canvas,            \* <<canvas.width, canvas.height>> in pixels
    db_lastPoint,         \* lastPoint.current: NoPoint or [x, y]
    db_isPinching,
    db_layer,             \* the raster layer: the strokes painted on it
    db_frames,            \* frames (predictWebcam bodies) executed so far
    db_lastDet,           \* detector outcome of the last executed frame
    db_error,             \* an exception escaped a handler
    db_tool,              \* state "tool"
    db_currentColor,      \* state "currentColor"
    db_brushSize,         \* state "brushSize"
    db_detStamp,          \* as detStamp, for the landmarker of this view
    \* ---- ImageToolsView (compression)
    im_file,              \* state "file" with "originalDims"
    im_mode,              \* state "mode"
    im_format,            \* state "compressFormat"
    im_quality,           \* state "compressQuality", in percent
    im_scale,             \* state "compressScale", in 1/ScaleUnit
    im_timer,             \* the timer of the debounce effect is armed
    im_runs,              \* performCompression calls waiting for img.onload
    im_compressed,        \* state "compressedImage"
    im_isCompressing,     \* state "isCompressing"
    im_edits,             \* inputs the user has made so far
    \* ---- ConverterView
    cv_file,              \* state "file": NoDoc or the selected document
    cv_targetFormat,      \* state "targetFormat"
    cv_isConverting,      \* state "isConverting"
    cv_resultContent,     \* state "resultContent": NoContent or a text
    cv_error,             \* state "error": "" for null
    cv_reads,             \* fileToBase64 calls that have not settled
    cv_call,              \* the convertDocument call that has not settled
    cv_download,          \* what the last downloadFile call has saved
    cv_edits,             \* inputs the user has made so far
    \* ---- PhotoStudioView
    hasApiKey,            \* process.env.API_KEY is set
    ps_file,              \* state "file": NoPhoto or the selected photograph
    ps_isProcessing,      \* state "isProcessing"
    ps_results,           \* state "results"
    ps_error,             \* state "error": "" for null
    ps_reads,             \* fileToBase64 calls that have not settled
    ps_calls,             \* the promises of the running series, by style
    ps_edits,             \* inputs the user has made so far
    \* ---- scripted hand (particle view)
    sim,                  \* phase of the scripted hand, frames in the phase,
                          \* average distance to the anchor at its start
    lastOp              \* the handler that ran last

hvars == <<mountedH, videoRef, srcObject, loadedPending, trackLive,
           isCameraActive, isLoading, statusMessage, requestRef, rafPending,
           handLandmarkerRef, pcH, streams, particlesRef, frames, lastDet,
           handState, handCenter, errorH, stopsInRow, detStamp, frameLog>>

\* what only the render loop and the model loader write
hloop == <<detStamp, frameLog>>

dvars == <<db_mounted, db_videoRef, db_srcObject, db_loadedPending,
           db_trackLive, db_isLoaded, db_requestRef, db_rafPending,
           db_handLandmarkerRef, db_pc, db_canvas, db_lastPoint,
           db_isPinching, db_layer, db_frames, db_lastDet, db_error,
           db_tool, db_currentColor, db_brushSize, db_detStamp>>

\* the selections of the tool bar
dsel == <<db_tool, db_currentColor, db_brushSize>>

\* the host: mounted view and browser
env == <<view, hasMediaDevices, strokesZeroLength, coarseClock>>

ivars == <<im_file, im_mode, im_format, im_quality, im_scale, im_timer,
           im_runs, im_compressed, im_isCompressing, im_edits>>

cvars == <<cv_file, cv_targetFormat, cv_isConverting, cv_resultContent,
           cv_error, cv_reads, cv_call, cv_download, cv_edits>>

\* the views that only call services
pvars == <<hasApiKey, ps_file, ps_isProcessing, ps_results, ps_error,
           ps_reads, ps_calls, ps_edits>>

ovars == <<cvars, pvars>>

vars == <<env, hvars, dvars, ivars, ovars, sim, lastOp>>

\* ------------------------------------------------------------- landmarks
\* A KeypointSet keeps the landmarks the code reads: 0 wrist, 4 thumb tip,
\* 8 index tip, 9 middle knuckle, 12 middle tip; each <<x, y>> in 1/NORM.
\* n is the length of the array: landmarks[i] is undefined for i >= n.
Pose(l0, l9, l12) ==
    [n |-> 21, l0 |-> l0, l4 |-> l0, l8 |-> l0, l9 |-> l9, l12 |-> l12]

\* hands the detector reports to HandTrackingView
HandPoses ==
    { Pose(<<8, 12>>, <<8, 4>>, <<8, 0>>),    \* palm, anchor at the centre
      Pose(<<8, 12>>, <<8, 4>>, <<8, 8>>),    \* fist, anchor at the centre
      Pose(<<16, 2>>, <<16, 0>>, <<16, 1>>),  \* fist, anchor at the left edge
      Pose(<<0, 0>>, <<0, 10>>, <<0, 5>>),    \* tip at half the knuckle distance
      Pose(<<8, 13>>, <<8, 3>>, <<8, 1>>) }   \* tip at 1.2 x knuckle distance

\* arrays the detector returns with fewer than 21 points
ShortPoses ==
    { [Pose(<<8, 12>>, <<8, 4>>, <<8, 8>>) EXCEPT !.n = 13],   \* 0 .. 12
      [Pose(<<8, 12>>, <<8, 4>>, <<8, 8>>) EXCEPT !.n = 12] }  \* 0 .. 11

\* outcome of one frame's detection: the video has no dimensions yet
\* ("notReady", the detector is not called), the detector throws, it finds
\* no hand, or it returns a KeypointSet lm ("hand")
NoLandmarks == Pose(<<0, 0>>, <<0, 0>>, <<0, 0>>)
Det(kind, lm) == [kind |-> kind, lm |-> lm]
NoHandKinds == {"notReady", "throw", "noHand"}

\* Math.random() in quarters: r = k/4
RandomQuarters == {0, 3}

\* (Math.random() - 0.5) * ampl, ampl in units
Jitter(r4, ampl) == Num(TDiv((r4 - 2) * ampl, 4))

\* ------------------------------------------------- HandTrackingView: pure
\* detectHandState with the boundary classified as closed
detectHandState_Inclusive(lm) ==
    LET tx == lm.l12[1] - lm.l0[1]
        ty == lm.l12[2] - lm.l0[2]
        mx == lm.l9[1] - lm.l0[1]
        my == lm.l9[2] - lm.l0[2]
    IN  IF lm.n = 0 THEN "none"
        ELSE IF lm.n <= 12 THEN "TypeError"
        ELSE IF 25 * (tx * tx + ty * ty) <= 36 * (mx * mx + my * my)
        THEN "closed" ELSE "open"

\* detectHandState: closed iff
\* hypot(tip - wrist) < hypot(mcp - wrist) * 1.2, compared on the squares.
\* Reading .x of landmarks[12] when the array has no index 12 is a
\* TypeError.
detectHandState(lm) ==
    LET tx == lm.l12[1] - lm.l0[1]
        ty == lm.l12[2] - lm.l0[2]
        mx == lm.l9[1] - lm.l0[1]
        my == lm.l9[2] - lm.l0[2]
    IN  IF lm.n = 0 THEN "none"
        ELSE IF lm.n <= 12 THEN "TypeError"
        ELSE IF 25 * (tx * tx + ty * ty) < 36 * (mx * mx + my * my)
        THEN "closed" ELSE "open"

\* handCenter of a detected hand: midpoint of wrist and knuckle, X mirrored
PalmCenter(lm) ==
    [x |-> Num(W - TDiv((lm.l0[1] + lm.l9[1]) * W, 2 * NORM)),
     y |-> Num(TDiv((lm.l0[2] + lm.l9[2]) * H, 2 * NORM))]

CanvasCenter == [x |-> Num(W \div 2), y |-> Num(H \div 2)]

\* the "closed" branch with the sign of the force reversed
ForceClosed_Pushes(p, hc) ==
    LET dx   == FSub(p.x, hc.x)
        dy   == FSub(p.y, hc.y)
        dist == FHypot(dx, dy)
        pull == FGt(dist, Num(5 * SCALE))
        vx1  == IF pull THEN FAdd(p.vx, FDivMul(dx, dist, Num((3 * SCALE) \div 2)))
                        ELSE p.vx
        vy1  == IF pull THEN FAdd(p.vy, FDivMul(dy, dist, Num((3 * SCALE) \div 2)))
                        ELSE p.vy
    IN  [p EXCEPT !.vx = FScale(vx1, 9, 10), !.vy = FScale(vy1, 9, 10)]

\* the "closed" branch of the particle loop
ForceClosed(p, hc) ==
    LET dx   == FSub(hc.x, p.x)
        dy   == FSub(hc.y, p.y)
        dist == FHypot(dx, dy)
        pull == FGt(dist, Num(5 * SCALE))
        vx1  == IF pull THEN FAdd(p.vx, FDivMul(dx, dist, Num((3 * SCALE) \div 2)))
                        ELSE p.vx
        vy1  == IF pull THEN FAdd(p.vy, FDivMul(dy, dist, Num((3 * SCALE) \div 2)))
                        ELSE p.vy
    IN  [p EXCEPT !.vx = FScale(vx1, 9, 10), !.vy = FScale(vy1, 9, 10)]

\* the "open" branch of the particle loop
ForceOpen(p, hc, rx, ry) ==
    LET dx    == FSub(p.x, hc.x)
        dy    == FSub(p.y, hc.y)
        dist  == FHypot(dx, dy)
        near  == FLt(dist, Num(200 * SCALE))
        force == FScale(FSub(Num(200 * SCALE), dist), 1, 20)
        vx1   == IF near THEN FAdd(p.vx, FDivMul(dx, dist, force))
                         ELSE FAdd(p.vx, Jitter(rx, SCALE \div 2))
        vy1   == IF near THEN FAdd(p.vy, FDivMul(dy, dist, force))
                         ELSE FAdd(p.vy, Jitter(ry, SCALE \div 2))
    IN  [p EXCEPT !.vx = FScale(vx1, 19, 20), !.vy = FScale(vy1, 19, 20)]

\* the idle branch of the particle loop
ForceIdle(p, rx, ry) ==
    LET vx1 == FAdd(p.vx, Jitter(rx, SCALE \div 5))
        vy1 == FAdd(p.vy, Jitter(ry, SCALE \div 5))
        dx  == FSub(Num(W \div 2), p.x)
        dy  == FSub(Num(H \div 2), p.y)
        vx2 == FAdd(vx1, FScale(dx, 1, 2000))
        vy2 == FAdd(vy1, FScale(dy, 1, 2000))
    IN  [p EXCEPT !.vx = FScale(vx2, 49, 50), !.vy = FScale(vy2, 49, 50)]

\* "Update position" and "Bounds"
Integrate(p) ==
    LET x1 == FAdd(p.x, p.vx)
        y1 == FAdd(p.y, p.vy)
        a  == [p EXCEPT !.x = x1, !.y = y1]
        b  == IF FLt(a.x, Num(0)) THEN [a EXCEPT !.x = Num(0), !.vx = FScale(a.vx, -1, 1)] ELSE a
        c  == IF FGt(b.x, Num(W)) THEN [b EXCEPT !.x = Num(W), !.vx = FScale(b.vx, -1, 1)] ELSE b
        d  == IF FLt(c.y, Num(0)) THEN [c EXCEPT !.y = Num(0), !.vy = FScale(c.vy, -1, 1)] ELSE c
        e  == IF FGt(d.y, Num(H)) THEN [d EXCEPT !.y = Num(H), !.vy = FScale(d.vy, -1, 1)] ELSE d
    IN  e

\* one iteration of the loop that stores the colour it draws with in the
\* particle
StepParticle_Recolours(p, hs, hc, rx, ry) ==
    [Integrate(IF hs = "closed" THEN ForceClosed(p, hc)
               ELSE IF hs = "open" THEN ForceOpen(p, hc, rx, ry)
               ELSE ForceIdle(p, rx, ry))
        EXCEPT !.color = IF hs = "closed" THEN "hot"
                         ELSE IF hs = "open" THEN "cool" ELSE p.color]

\* one iteration of particlesRef.current.forEach
StepParticle(p, hs, hc, rx, ry) ==
    Integrate(IF hs = "closed" THEN ForceClosed(p, hc)
              ELSE IF hs = "open" THEN ForceOpen(p, hc, rx, ry)
              ELSE ForceIdle(p, rx, ry))

\* fillStyle used to draw a particle
DrawColor(p, hs) ==
    IF hs = "closed" THEN "hot" ELSE IF hs = "open" THEN "cool" ELSE p.color

\* particles the mount effect may create (x, y in [0, W) x [0, H),
\* vx, vy in [-1, 1) pixel per frame)
Particle(x, y, vx, vy) ==
    [x |-> Num(x), y |-> Num(y), vx |-> Num(vx), vy |-> Num(vy),
     size |-> 2, color |-> "base"]

InitParticles ==
    { Particle(W \div 2, H \div 2, 0, 0),
      Particle(W - 10, H - 10, SCALE - 2, SCALE - 2),
      Particle(5, 5, -SCALE, -SCALE) }

\* ------------------------------------------------------ detector calls
\* performance.now() is monotonic but not strictly: two reads return the
\* same value when less than the resolution of the clock lies between
\* them, which happens from one frame to the next where the browser clamps
\* the clock to more than a frame interval.  A timestamp is kept relative
\* to the previous call of the same landmarker: 0 = equal, 1 = greater by
\* any amount.
ClockAdvances == IF coarseClock THEN {0, 1} ELSE {1}
NoCall    == -2   \* the landmarker has not been called
FirstCall == -1   \* it has been called once

\* "let startTimeMs = performance.now()" and detectForVideo(video,
\* startTimeMs): the call is made unless the video has no dimensions
Detect(det, stamp, stamp1) ==
    IF det.kind = "notReady" THEN stamp1 = stamp
    ELSE \E adv \in ClockAdvances :
             stamp1 = IF stamp = NoCall THEN FirstCall ELSE adv

\* positions of the particle array whose iterations the frame log keeps
LoggedParticles == 2

Event(ev, i) == [ev |-> ev, i |-> i]

\* forEach with the drawing of a particle ahead of its update
LoopEvents_DrawFirst(i) == <<Event("draw", i), Event("update", i)>>

\* one iteration of particlesRef.current.forEach: physics, integration
\* and bounds of particle i, then its arc() and fill()
LoopEvents(i) == <<Event("update", i), Event("draw", i)>>

RECURSIVE ForEachEvents(_, _)
ForEachEvents(i, n) ==
    IF i > n THEN <<>> ELSE LoopEvents(i) \o ForEachEvents(i + 1, n)

\* the steps of a frame of the particle view in program order: the
\* detector call (if the video has dimensions), the classification that
\* fixes currentHandState and handCenter, clearRect and background, the
\* particle loop, requestAnimationFrame
FrameEvents(det) ==
    (IF det.kind = "notReady" THEN <<>> ELSE <<Event("detect", 0)>>)
        \o <<Event("classify", 0), Event("clear", 0)>>
        \o ForEachEvents(1, LoggedParticles)
        \o <<Event("schedule", 0)>>

\* --------------------------------------------- HandTrackingView: handlers
Streams == 1 .. MaxSessions

\* a React state setter: ignored once the component is unmounted
SetState(mounted, new, old) == IF mounted THEN new ELSE old

\* isCameraActive as captured by the predictWebcam closure that runs the
\* loop: the closure of the render in which the start button was clicked,
\* and the button starts only while isCameraActive is false
ClosureIsCameraActive == FALSE

\* the two early returns of predictWebcam (lines 142 and 144)
RunsBody ==
    /\ ClosureIsCameraActive \/ (videoRef /\ srcObject # 0)
    /\ handLandmarkerRef # 0
    /\ videoRef

\* handState and handCenter of a frame whose detection outcome is det; an
\* exception of detectHandState is caught by the try/catch of the frame
\* before either variable is assigned
FrameState(det) ==
    IF det.kind = "hand" /\ detectHandState(det.lm) # "TypeError"
    THEN detectHandState(det.lm) ELSE "none"

FrameCenter(det) ==
    IF det.kind = "hand" /\ detectHandState(det.lm) \notin {"TypeError", "none"}
    THEN PalmCenter(det.lm) ELSE CanvasCenter

\* predictWebcam that returns while the video has no dimensions, before
\* the simulation and before requestAnimationFrame
predictWebcam_WaitsForVideo(det, rs, fromRaf) ==
    IF RunsBody
    THEN /\ frames' = frames + 1
         /\ lastDet' = det
         /\ Detect(det, detStamp, detStamp')
         /\ IF det.kind = "notReady"
            THEN /\ frameLog' = <<>>
                 /\ rafPending' = IF fromRaf THEN FALSE ELSE rafPending
                 /\ UNCHANGED <<handState, handCenter, particlesRef, requestRef>>
            ELSE /\ frameLog' = FrameEvents(det)
                 /\ handState' = FrameState(det)
                 /\ handCenter' = FrameCenter(det)
                 /\ particlesRef' =
                        [i \in 1 .. Len(particlesRef) |->
                            StepParticle(particlesRef[i], FrameState(det),
                                         FrameCenter(det), rs[i][1], rs[i][2])]
                 /\ requestRef' = requestRef + 1
                 /\ rafPending' = TRUE
         /\ UNCHANGED errorH
    ELSE /\ rafPending' = IF fromRaf THEN FALSE ELSE rafPending
         /\ UNCHANGED <<frames, lastDet, handState, handCenter, particlesRef,
                        requestRef, errorH, hloop>>

\* predictWebcam without the try/catch around detectForVideo
predictWebcam_NoCatch(det, rs, fromRaf) ==
    IF RunsBody
    THEN /\ frames' = frames + 1
         /\ lastDet' = det
         /\ Detect(det, detStamp, detStamp')
         /\ IF det.kind = "throw"
            THEN /\ errorH' = TRUE
                 /\ frameLog' = <<Event("detect", 0)>>
                 /\ rafPending' = IF fromRaf THEN FALSE ELSE rafPending
                 /\ UNCHANGED <<handState, handCenter, particlesRef, requestRef>>
            ELSE /\ frameLog' = FrameEvents(det)
                 /\ handState' = FrameState(det)
                 /\ handCenter' = FrameCenter(det)
                 /\ particlesRef' =
                        [i \in 1 .. Len(particlesRef) |->
                            StepParticle(particlesRef[i], FrameState(det),
                                         FrameCenter(det), rs[i][1], rs[i][2])]
                 /\ requestRef' = requestRef + 1
                 /\ rafPending' = TRUE
                 /\ UNCHANGED errorH
    ELSE /\ rafPending' = IF fromRaf THEN FALSE ELSE rafPending
         /\ UNCHANGED <<frames, lastDet, handState, handCenter, particlesRef,
                        requestRef, errorH, hloop>>

\* predictWebcam: det is the outcome of detection, rs the Math.random()
\* draws per particle, fromRaf tells whether the animation frame callback
\* (rather than onloadeddata) made the call
predictWebcam(det, rs, fromRaf) ==
    IF RunsBody
    THEN /\ frames' = frames + 1
         /\ lastDet' = det
         /\ Detect(det, detStamp, detStamp')
         /\ frameLog' = FrameEvents(det)
         /\ handState' = FrameState(det)
         /\ handCenter' = FrameCenter(det)
         /\ particlesRef' =
                [i \in 1 .. Len(particlesRef) |->
                    StepParticle(particlesRef[i], FrameState(det),
                                 FrameCenter(det), rs[i][1], rs[i][2])]
         /\ requestRef' = requestRef + 1
         /\ rafPending' = TRUE
         \* the try/catch around detectForVideo swallows its exception
         /\ UNCHANGED errorH
    ELSE /\ rafPending' = IF fromRaf THEN FALSE ELSE rafPending
         /\ UNCHANGED <<frames, lastDet, handState, handCenter, particlesRef,
                        requestRef, errorH, hloop>>

\* stopCamera that only resets the two pieces of React state: the stream
\* stays on the video element and the callback stays scheduled
stopCamera_OnlyFlags(ref, mounted) ==
    /\ isCameraActive' = SetState(mounted, FALSE, isCameraActive)
    /\ statusMessage' = SetState(mounted, "ready", statusMessage)
    /\ UNCHANGED <<trackLive, srcObject, loadedPending, rafPending, errorH>>
    /\ stopsInRow' = stopsInRow + 1

\* stopCamera without cancelAnimationFrame
stopCamera_KeepsCallback(ref, mounted) ==
    LET hasStream == ref /\ srcObject # 0
    IN  /\ trackLive' = IF hasStream
                        THEN [trackLive EXCEPT ![srcObject] = "ended"]
                        ELSE trackLive
        /\ srcObject' = IF hasStream THEN 0 ELSE srcObject
        /\ loadedPending' = IF hasStream THEN FALSE ELSE loadedPending
        /\ isCameraActive' = SetState(mounted, FALSE, isCameraActive)
        /\ statusMessage' = SetState(mounted, "ready", statusMessage)
        /\ UNCHANGED <<rafPending, errorH>>
        /\ stopsInRow' = stopsInRow + 1

\* stopCamera without the null checks: getTracks() of a missing stream is
\* a TypeError and the rest of the function does not run
stopCamera_NoNullCheck(ref, mounted) ==
    LET hasStream == ref /\ srcObject # 0
    IN  IF hasStream
        THEN /\ trackLive' = [trackLive EXCEPT ![srcObject] = "ended"]
             /\ srcObject' = 0
             /\ loadedPending' = FALSE
             /\ isCameraActive' = SetState(mounted, FALSE, isCameraActive)
             /\ statusMessage' = SetState(mounted, "ready", statusMessage)
             /\ rafPending' = IF requestRef # 0 THEN FALSE ELSE rafPending
             /\ UNCHANGED errorH
             /\ stopsInRow' = stopsInRow + 1
        ELSE /\ errorH' = TRUE
             /\ stopsInRow' = stopsInRow + 1
             /\ UNCHANGED <<trackLive, srcObject, loadedPending,
                            isCameraActive, statusMessage, rafPending>>

\* stopCamera; ref tells whether videoRef.current is still attached when
\* it runs, mounted whether the state setters still take effect
stopCamera(ref, mounted) ==
    LET hasStream == ref /\ srcObject # 0
    IN  /\ trackLive' = IF hasStream
                        THEN [trackLive EXCEPT ![srcObject] = "ended"]
                        ELSE trackLive
        /\ srcObject' = IF hasStream THEN 0 ELSE srcObject
        /\ loadedPending' = IF hasStream THEN FALSE ELSE loadedPending
        /\ isCameraActive' = SetState(mounted, FALSE, isCameraActive)
        /\ statusMessage' = SetState(mounted, "ready", statusMessage)
        /\ rafPending' = IF requestRef # 0 THEN FALSE ELSE rafPending
        \* the stream is dereferenced only behind the null checks
        /\ UNCHANGED errorH
        /\ stopsInRow' = stopsInRow + 1

\* initializeHandLandmarker reachable from a button that is neither
\* disabled while loading nor switched to stopCamera while active
InitializeHandLandmarker_Anytime ==
    /\ view = "hand" /\ mountedH
    /\ handLandmarkerRef < MaxSessions /\ pcH = "idle"
    /\ isLoading' = TRUE
    /\ statusMessage' = "loadingModel"
    /\ pcH' = "awaitVision"
    /\ stopsInRow' = 0
    /\ lastOp' = "start"
    /\ UNCHANGED <<dvars, env, ivars, ovars, sim, hloop, mountedH, videoRef, srcObject,
                   loadedPending, trackLive, isCameraActive, requestRef,
                   rafPending, handLandmarkerRef, streams, particlesRef,
                   frames, lastDet, handState, handCenter, errorH>>

\* click on the button while it shows "start": initializeHandLandmarker up
\* to its first await
InitializeHandLandmarker ==
    /\ view = "hand" /\ mountedH
    /\ ~isLoading /\ ~isCameraActive
    /\ handLandmarkerRef < MaxSessions /\ pcH = "idle"
    /\ isLoading' = TRUE
    /\ statusMessage' = "loadingModel"
    /\ pcH' = "awaitVision"
    /\ stopsInRow' = 0
    /\ lastOp' = "start"
    /\ UNCHANGED <<dvars, env, ivars, ovars, sim, hloop, mountedH, videoRef, srcObject,
                   loadedPending, trackLive, isCameraActive, requestRef,
                   rafPending, handLandmarkerRef, streams, particlesRef,
                   frames, lastDet, handState, handCenter, errorH>>

\* FilesetResolver.forVisionTasks resolves; createFromOptions is awaited
VisionResolved ==
    /\ pcH = "awaitVision"
    /\ pcH' = "awaitModel"
    /\ stopsInRow' = 0
    /\ lastOp' = "visionResolved"
    /\ UNCHANGED <<dvars, env, ivars, ovars, sim, hloop, mountedH, videoRef, srcObject,
                   loadedPending, trackLive, isCameraActive, isLoading,
                   statusMessage, requestRef, rafPending, handLandmarkerRef,
                   streams, particlesRef, frames, lastDet, handState,
                   handCenter, errorH>>

\* createFromOptions resolves; startCamera runs up to its await
ModelResolved ==
    /\ pcH = "awaitModel"
    /\ handLandmarkerRef' = handLandmarkerRef + 1
    \* the new landmarker has not seen a timestamp yet
    /\ detStamp' = NoCall
    /\ IF hasMediaDevices
       THEN /\ statusMessage' = SetState(mountedH, "modelLoaded", statusMessage)
            /\ pcH' = "awaitCamera"
            /\ UNCHANGED isLoading
       ELSE /\ statusMessage' = SetState(mountedH, "unsupported", statusMessage)
            /\ isLoading' = SetState(mountedH, FALSE, isLoading)
            /\ pcH' = "idle"
    /\ stopsInRow' = 0
    /\ lastOp' = IF hasMediaDevices THEN "modelResolved" ELSE "unsupported"
    /\ UNCHANGED <<dvars, env, ivars, ovars, sim, frameLog, mountedH, videoRef, srcObject,
                   loadedPending, trackLive, isCameraActive, requestRef,
                   rafPending, streams, particlesRef, frames, lastDet,
                   handState, handCenter, errorH>>

\* either await of initializeHandLandmarker rejects: its catch block
ModelRejected ==
    /\ pcH \in {"awaitVision", "awaitModel"}
    /\ statusMessage' = SetState(mountedH, "modelLoadFailed", statusMessage)
    /\ isLoading' = SetState(mountedH, FALSE, isLoading)
    /\ pcH' = "idle"
    /\ stopsInRow' = 0
    /\ lastOp' = "modelRejected"
    /\ UNCHANGED <<dvars, env, ivars, ovars, sim, hloop, mountedH, videoRef, srcObject,
                   loadedPending, trackLive, isCameraActive, requestRef,
                   rafPending, handLandmarkerRef, streams, particlesRef,
                   frames, lastDet, handState, handCenter, errorH>>

\* getUserMedia resolves and the loop is scheduled at once instead of in
\* onloadeddata
CameraResolved_StartsLoop ==
    /\ pcH = "awaitCamera"
    /\ streams' = streams + 1
    /\ trackLive' = [trackLive EXCEPT ![streams + 1] = "live"]
    /\ IF videoRef
       THEN /\ srcObject' = streams + 1 /\ loadedPending' = TRUE
            /\ requestRef' = requestRef + 1 /\ rafPending' = TRUE
       ELSE UNCHANGED <<srcObject, loadedPending, requestRef, rafPending>>
    /\ pcH' = "idle"
    /\ stopsInRow' = 0
    /\ lastOp' = "cameraResolved"
    /\ UNCHANGED <<dvars, env, ivars, ovars, sim, hloop, mountedH, videoRef, isCameraActive,
                   isLoading, statusMessage,
                   handLandmarkerRef, particlesRef, frames, lastDet,
                   handState, handCenter, errorH>>

\* getUserMedia resolves with a new stream (its tracks are live)
CameraResolved ==
    /\ pcH = "awaitCamera"
    /\ streams' = streams + 1
    /\ trackLive' = [trackLive EXCEPT ![streams + 1] = "live"]
    /\ IF videoRef
       THEN srcObject' = streams + 1 /\ loadedPending' = TRUE
       ELSE UNCHANGED <<srcObject, loadedPending>>
    /\ pcH' = "idle"
    /\ stopsInRow' = 0
    /\ lastOp' = "cameraResolved"
    /\ UNCHANGED <<dvars, env, ivars, ovars, sim, hloop, mountedH, videoRef, isCameraActive,
                   isLoading, statusMessage, requestRef, rafPending,
                   handLandmarkerRef, particlesRef, frames, lastDet,
                   handState, handCenter, errorH>>

CameraErrors ==
    {"NotAllowedError", "PermissionDeniedError", "NotFoundError", "OtherError"}

\* the catch block with the NotFoundError branch missing
CameraErrorMessage_NoDeviceBranch(name) ==
    IF name \in {"NotAllowedError", "PermissionDeniedError"}
    THEN "permissionDenied"
    ELSE "cameraError"

\* the message startCamera's catch block shows for an error name
CameraErrorMessage(name) ==
    IF name \in {"NotAllowedError", "PermissionDeniedError"}
    THEN "permissionDenied"
    ELSE IF name = "NotFoundError" THEN "deviceNotFound" ELSE "cameraError"

\* getUserMedia rejects: the catch block of startCamera
CameraRejected(name) ==
    /\ pcH = "awaitCamera"
    /\ statusMessage' = SetState(mountedH, CameraErrorMessage(name), statusMessage)
    /\ isLoading' = SetState(mountedH, FALSE, isLoading)
    /\ pcH' = "idle"
    /\ stopsInRow' = 0
    /\ lastOp' = name
    /\ UNCHANGED <<dvars, env, ivars, ovars, sim, hloop, mountedH, videoRef, srcObject,
                   loadedPending, trackLive, isCameraActive, requestRef,
                   rafPending, handLandmarkerRef, streams, particlesRef,
                   frames, lastDet, handState, handCenter, errorH>>

\* particlesRef.current as the mount effect leaves it.  An iteration of
\* forEach reads and writes only its own particle, so the array is followed
\* through one of its particles.
InitParticleArrays == {<<p>> : p \in InitParticles}

FrameInputs ==
    {Det(k, NoLandmarks) : k \in NoHandKinds}
        \cup {Det("hand", lm) : lm \in HandPoses \cup ShortPoses}
\* the Math.random() draws of one frame, a pair per particle
RandomDraws == [1 .. Len(particlesRef) -> RandomQuarters \X RandomQuarters]

\* the video element fires loadeddata: the handler set by startCamera
OnLoadedData(det, rs) ==
    /\ loadedPending /\ srcObject # 0
    /\ loadedPending' = FALSE
    /\ isCameraActive' = SetState(mountedH, TRUE, isCameraActive)
    /\ isLoading' = SetState(mountedH, FALSE, isLoading)
    /\ statusMessage' = SetState(mountedH, "placeHand", statusMessage)
    /\ RunsBody => frames < MaxFrames
    /\ predictWebcam(det, rs, FALSE)
    /\ stopsInRow' = 0
    /\ lastOp' = "loadeddata"
    /\ UNCHANGED <<dvars, env, ivars, ovars, sim, mountedH, videoRef, srcObject,
                   trackLive, handLandmarkerRef, pcH, streams>>

\* the host runs the scheduled animation frame callback
AnimationFrame(det, rs) ==
    /\ view = "hand" /\ rafPending
    /\ RunsBody => frames < MaxFrames
    /\ predictWebcam(det, rs, TRUE)
    /\ stopsInRow' = 0
    /\ lastOp' = "frame"
    /\ UNCHANGED <<dvars, env, ivars, ovars, sim, mountedH, videoRef, srcObject,
                   loadedPending, trackLive, isCameraActive, isLoading,
                   statusMessage, handLandmarkerRef, pcH, streams>>

\* click on the button while it shows "stop"
StopClick ==
    /\ view = "hand" /\ mountedH
    /\ isCameraActive /\ ~isLoading
    /\ stopCamera(videoRef, TRUE)
    /\ lastOp' = "stopClick"
    /\ UNCHANGED <<dvars, env, ivars, ovars, sim, hloop, mountedH, videoRef, isLoading,
                   requestRef, handLandmarkerRef, pcH, streams, particlesRef,
                   frames, lastDet, handState, handCenter>>

\* the component unmounts: React detaches the refs and runs the effect
\* cleanup (stopCamera); which of the two comes first depends on the React
\* version, so both orders are behaviours
UnmountH ==
    /\ view = "hand" /\ mountedH
    /\ mountedH' = FALSE
    /\ videoRef' = FALSE
    /\ \E detachedFirst \in BOOLEAN : stopCamera(~detachedFirst, FALSE)
    /\ lastOp' = "unmount"
    /\ UNCHANGED <<dvars, env, ivars, ovars, sim, hloop, isLoading, requestRef,
                   handLandmarkerRef, pcH, streams, particlesRef, frames,
                   lastDet, handState, handCenter>>

\* after mount, with the particle array one of arrays
InitHFrom(arrays) ==
    /\ mountedH = (view = "hand")
    /\ videoRef = (view = "hand")
    /\ srcObject = 0
    /\ loadedPending = FALSE
    /\ trackLive = [s \in Streams |-> "none"]
    /\ isCameraActive = FALSE
    /\ isLoading = FALSE
    /\ statusMessage = "ready"
    /\ requestRef = 0
    /\ rafPending = FALSE
    /\ handLandmarkerRef = 0
    /\ pcH = "idle"
    /\ streams = 0
    /\ IF view = "hand"
       THEN particlesRef \in arrays
       ELSE particlesRef = <<>>
    /\ frames = 0
    /\ lastDet = Det("notReady", NoLandmarks)
    /\ handState = "none"
    /\ handCenter = CanvasCenter
    /\ errorH = FALSE
    /\ stopsInRow = 0
    /\ detStamp = NoCall
    /\ frameLog = <<>>

InitH == InitHFrom(InitParticleArrays)

NextH ==
    \/ InitializeHandLandmarker
    \/ VisionResolved
    \/ ModelResolved
    \/ ModelRejected
    \/ CameraResolved
    \/ \E name \in CameraErrors : CameraRejected(name)
    \/ \E det \in FrameInputs, rs \in RandomDraws : OnLoadedData(det, rs)
    \/ \E det \in FrameInputs, rs \in RandomDraws : AnimationFrame(det, rs)
    \/ StopClick
    \/ UnmountH

\* ----------------------------------------------- DrawingBoardView: pure
\* a hand whose index tip (8) and thumb tip (4) are at the given places
DrawPose(l8, l4) == [NoLandmarks EXCEPT !.l8 = l8, !.l4 = l4]

\* hands the detector reports to DrawingBoardView
DrawPoses ==
    { DrawPose(<<8, 8>>, <<8, 8>>),    \* tips coincide
      DrawPose(<<4, 8>>, <<4, 9>>),    \* tips 30 px apart
      DrawPose(<<4, 4>>, <<8, 4>>),    \* tips 240 px apart
      DrawPose(<<4, 8>>, <<5, 8>>),    \* tips one step apart in x
      DrawPose(<<8, 0>>, <<8, 0>>) }   \* tips coincide at the top edge

\* window.innerWidth, window.innerHeight when the view mounts
WindowSizes == {<<960, 480>>}

\* window.innerWidth, window.innerHeight at a resize event
ResizeSizes == {<<960, 480>>, <<640, 480>>}

\* values the controls of the tool bar can select
Tools      == {"brush", "eraser"}
COLORS     == {"#ef4444", "#3b82f6"}
BrushSizes == {8, 20}

\* ids of TEMPLATES the template buttons pass to loadTemplate
TemplateIds == {"flower"}

NoPoint == [none |-> TRUE, x |-> 0, y |-> 0]
Point(x, y) == [none |-> FALSE, x |-> x, y |-> y]

\* tool, currentColor and brushSize as captured by the predictWebcam closure
\* that runs the loop: the closure of the first render, which the mount
\* effect hands to onloadeddata and which reschedules itself
ClosureTool      == "brush"
ClosureColor     == "#ef4444"
ClosureBrushSize == 8

\* landmark to canvas pixels (in units), X mirrored
MapX(l, canvas) == TDiv((NORM - l[1]) * canvas[1] * SCALE, NORM)
MapY(l, canvas) == TDiv(l[2] * canvas[2] * SCALE, NORM)

\* Math.hypot(x - thumbX, y - thumbY)
PinchDist(lm, canvas) ==
    LET dx == MapX(lm.l8, canvas) - MapX(lm.l4, canvas)
        dy == MapY(lm.l8, canvas) - MapY(lm.l4, canvas)
    IN  ISqrt(dx * dx + dy * dy)

\* isPinchNow with the threshold included
IsPinchNow_Inclusive(lm, canvas) == PinchDist(lm, canvas) <= 60 * SCALE

\* isPinchNow
IsPinchNow(lm, canvas) == PinchDist(lm, canvas) < 60 * SCALE

\* a || b on numbers: 0 is falsy
OrElse(a, b) == IF a = 0 THEN b ELSE a

\* the stroke of a pinching frame: moveTo(lastPoint || current), lineTo
Stroke(last, x, y) ==
    [shape |-> "line",
     from  |-> IF last.none THEN <<x, y>>
               ELSE <<OrElse(last.x, x), OrElse(last.y, y)>>,
     to    |-> <<x, y>>,
     op    |-> IF ClosureTool = "eraser" THEN "destination-out" ELSE "source-over",
     color |-> ClosureColor,
     width |-> IF ClosureTool = "eraser" THEN ClosureBrushSize * 3 ELSE ClosureBrushSize]

\* ctx.stroke() of a path: a line of length zero has only its round caps,
\* which some canvas implementations paint and others prune
Paint(layer, stroke) ==
    IF stroke.from = stroke.to /\ ~strokesZeroLength THEN layer
    ELSE Append(layer, stroke)

\* what t.draw paints for a template on a canvas of the given size
Stamp(id, canvas) ==
    [shape |-> id,
     from  |-> <<0, 0>>,
     to    |-> <<canvas[1] * SCALE, canvas[2] * SCALE>>,
     op    |-> "source-over",
     color |-> "#000000",
     width |-> 5]

RECURSIVE Stamps(_)
\* number of template drawings on the layer
Stamps(layer) ==
    IF layer = <<>> THEN 0
    ELSE (IF Head(layer).shape = "line" THEN 0 ELSE 1) + Stamps(Tail(layer))

\* ------------------------------------------- DrawingBoardView: handlers
\* the early return of predictWebcam (line 197)
RunsBodyD == db_handLandmarkerRef # 0 /\ db_videoRef

\* predictWebcam of the drawing board with a no-hand branch that only
\* resets isPinching
predictWebcamD_KeepsAnchor(det, fromRaf) ==
    IF ~RunsBodyD
    THEN /\ db_rafPending' = IF fromRaf THEN FALSE ELSE db_rafPending
         /\ UNCHANGED <<db_frames, db_lastDet, db_lastPoint, db_isPinching,
                        db_layer, db_requestRef, db_error, db_detStamp>>
    ELSE /\ db_frames' = db_frames + 1
         /\ db_lastDet' = det
         /\ Detect(det, db_detStamp, db_detStamp')
         /\ IF det.kind = "throw"
            THEN /\ db_error' = TRUE
                 /\ db_rafPending' = IF fromRaf THEN FALSE ELSE db_rafPending
                 /\ UNCHANGED <<db_lastPoint, db_isPinching, db_layer,
                                db_requestRef>>
            ELSE /\ IF det.kind = "hand"
                    THEN LET x == MapX(det.lm.l8, db_canvas)
                             y == MapY(det.lm.l8, db_canvas)
                             pinch == IsPinchNow(det.lm, db_canvas)
                         IN  /\ db_isPinching' = SetState(db_mounted, pinch, db_isPinching)
                             /\ db_layer' = IF pinch
                                            THEN Paint(db_layer, Stroke(db_lastPoint, x, y))
                                            ELSE db_layer
                             /\ db_lastPoint' = Point(x, y)
                    ELSE IF det.kind = "noHand"
                    THEN /\ db_isPinching' = SetState(db_mounted, FALSE, db_isPinching)
                         /\ UNCHANGED <<db_lastPoint, db_layer>>
                    ELSE UNCHANGED <<db_lastPoint, db_isPinching, db_layer>>
                 /\ db_requestRef' = db_requestRef + 1
                 /\ db_rafPending' = TRUE
                 /\ UNCHANGED db_error

\* predictWebcam of the drawing board
predictWebcamD(det, fromRaf) ==
    IF ~RunsBodyD
    THEN /\ db_rafPending' = IF fromRaf THEN FALSE ELSE db_rafPending
         /\ UNCHANGED <<db_frames, db_lastDet, db_lastPoint, db_isPinching,
                        db_layer, db_requestRef, db_error, db_detStamp>>
    ELSE /\ db_frames' = db_frames + 1
         /\ db_lastDet' = det
         /\ Detect(det, db_detStamp, db_detStamp')
         /\ IF det.kind = "throw"
            THEN \* detectForVideo throws and nothing catches it: the
                 \* callback ends before requestAnimationFrame
                 /\ db_error' = TRUE
                 /\ db_rafPending' = IF fromRaf THEN FALSE ELSE db_rafPending
                 /\ UNCHANGED <<db_lastPoint, db_isPinching, db_layer,
                                db_requestRef>>
            ELSE /\ IF det.kind = "hand"
                    THEN LET x == MapX(det.lm.l8, db_canvas)
                             y == MapY(det.lm.l8, db_canvas)
                             pinch == IsPinchNow(det.lm, db_canvas)
                         IN  /\ db_isPinching' = SetState(db_mounted, pinch, db_isPinching)
                             /\ db_layer' = IF pinch
                                            THEN Paint(db_layer, Stroke(db_lastPoint, x, y))
                                            ELSE db_layer
                             /\ db_lastPoint' = Point(x, y)
                    ELSE IF det.kind = "noHand"
                    THEN /\ db_lastPoint' = NoPoint
                         /\ db_isPinching' = SetState(db_mounted, FALSE, db_isPinching)
                         /\ UNCHANGED db_layer
                    ELSE UNCHANGED <<db_lastPoint, db_isPinching, db_layer>>
                 /\ db_requestRef' = db_requestRef + 1
                 /\ db_rafPending' = TRUE
                 /\ UNCHANGED db_error

\* FilesetResolver.forVisionTasks resolves: init checks "mounted"
VisionResolvedD ==
    /\ db_pc = "awaitVision"
    /\ db_pc' = IF db_mounted THEN "awaitModel" ELSE "done"
    /\ lastOp' = "visionResolved"
    /\ UNCHANGED <<hvars, env, ivars, ovars, sim, db_detStamp, dsel, db_mounted, db_videoRef,
                   db_srcObject, db_loadedPending, db_trackLive, db_isLoaded,
                   db_requestRef, db_rafPending, db_handLandmarkerRef,
                   db_canvas, db_lastPoint, db_isPinching, db_layer,
                   db_frames, db_lastDet, db_error>>

\* createFromOptions resolves: the model is stored, getUserMedia is awaited
\* when the browser has it
ModelResolvedD ==
    /\ db_pc = "awaitModel"
    /\ db_handLandmarkerRef' = 1
    /\ db_pc' = IF hasMediaDevices THEN "awaitCamera" ELSE "done"
    /\ lastOp' = IF hasMediaDevices THEN "modelResolved" ELSE "unsupported"
    /\ UNCHANGED <<hvars, env, ivars, ovars, sim, db_detStamp, dsel, db_mounted, db_videoRef,
                   db_srcObject, db_loadedPending, db_trackLive, db_isLoaded,
                   db_requestRef, db_rafPending, db_canvas, db_lastPoint,
                   db_isPinching, db_layer, db_frames, db_lastDet, db_error>>

\* one of the awaits of init rejects: the catch block logs and returns
RejectedD ==
    /\ db_pc \in {"awaitVision", "awaitModel", "awaitCamera"}
    /\ db_pc' = "done"
    /\ lastOp' = IF db_pc = "awaitCamera" THEN "cameraRejected" ELSE "modelRejected"
    /\ UNCHANGED <<hvars, env, ivars, ovars, sim, db_detStamp, dsel, db_mounted, db_videoRef,
                   db_srcObject, db_loadedPending, db_trackLive, db_isLoaded,
                   db_requestRef, db_rafPending, db_handLandmarkerRef,
                   db_canvas, db_lastPoint, db_isPinching, db_layer,
                   db_frames, db_lastDet, db_error>>

\* getUserMedia resolves with the stream (its tracks are live)
CameraResolvedD ==
    /\ db_pc = "awaitCamera"
    /\ db_trackLive' = "live"
    /\ IF db_videoRef /\ db_mounted
       THEN db_srcObject' = 1 /\ db_loadedPending' = TRUE
       ELSE UNCHANGED <<db_srcObject, db_loadedPending>>
    /\ db_pc' = "done"
    /\ lastOp' = "cameraResolved"
    /\ UNCHANGED <<hvars, env, ivars, ovars, sim, db_detStamp, dsel, db_mounted, db_videoRef,
                   db_isLoaded, db_requestRef, db_rafPending,
                   db_handLandmarkerRef, db_canvas, db_lastPoint,
                   db_isPinching, db_layer, db_frames, db_lastDet, db_error>>

FrameInputsD ==
    {Det(k, NoLandmarks) : k \in NoHandKinds} \cup {Det("hand", lm) : lm \in DrawPoses}

\* the video element fires loadeddata: the handler set by init
OnLoadedDataD(det) ==
    /\ db_loadedPending /\ db_srcObject # 0
    /\ db_loadedPending' = FALSE
    /\ db_isLoaded' = SetState(db_mounted, TRUE, db_isLoaded)
    /\ RunsBodyD => db_frames < MaxFramesD
    /\ predictWebcamD(det, FALSE)
    /\ lastOp' = "loadeddata"
    /\ UNCHANGED <<hvars, env, ivars, ovars, sim, dsel, db_mounted, db_videoRef,
                   db_srcObject, db_trackLive, db_handLandmarkerRef, db_pc,
                   db_canvas>>

\* the host runs the scheduled animation frame callback
AnimationFrameD(det) ==
    /\ view = "drawing" /\ db_rafPending
    /\ RunsBodyD => db_frames < MaxFramesD
    /\ predictWebcamD(det, TRUE)
    /\ lastOp' = "frame"
    /\ UNCHANGED <<hvars, env, ivars, ovars, sim, dsel, db_mounted, db_videoRef,
                   db_srcObject, db_loadedPending, db_trackLive, db_isLoaded,
                   db_handLandmarkerRef, db_pc, db_canvas>>

\* click on the brush or the eraser button
SetTool(t) ==
    /\ view = "drawing" /\ db_mounted /\ db_isLoaded
    /\ db_tool' = t
    /\ lastOp' = "select"
    /\ UNCHANGED <<hvars, env, ivars, ovars, sim, db_detStamp, db_mounted, db_videoRef, db_srcObject,
                   db_loadedPending, db_trackLive, db_isLoaded, db_requestRef,
                   db_rafPending, db_handLandmarkerRef, db_pc, db_canvas,
                   db_lastPoint, db_isPinching, db_layer, db_frames,
                   db_lastDet, db_error, db_currentColor, db_brushSize>>

\* click on a colour of the palette
SetCurrentColor(c) ==
    /\ view = "drawing" /\ db_mounted /\ db_isLoaded
    /\ db_currentColor' = c
    /\ db_tool' = "brush"
    /\ lastOp' = "select"
    /\ UNCHANGED <<hvars, env, ivars, ovars, sim, db_detStamp, db_mounted, db_videoRef, db_srcObject,
                   db_loadedPending, db_trackLive, db_isLoaded, db_requestRef,
                   db_rafPending, db_handLandmarkerRef, db_pc, db_canvas,
                   db_lastPoint, db_isPinching, db_layer, db_frames,
                   db_lastDet, db_error, db_brushSize>>

\* the size slider changes
SetBrushSize(n) ==
    /\ view = "drawing" /\ db_mounted /\ db_isLoaded
    /\ db_brushSize' = n
    /\ lastOp' = "select"
    /\ UNCHANGED <<hvars, env, ivars, ovars, sim, db_detStamp, db_mounted, db_videoRef, db_srcObject,
                   db_loadedPending, db_trackLive, db_isLoaded, db_requestRef,
                   db_rafPending, db_handLandmarkerRef, db_pc, db_canvas,
                   db_lastPoint, db_isPinching, db_layer, db_frames,
                   db_lastDet, db_error, db_tool, db_currentColor>>

\* clearCanvas with an early return while a pinch is going on
clearCanvas_OnlyWhenIdle ==
    db_layer' = IF db_videoRef /\ ~db_isPinching THEN <<>> ELSE db_layer

\* clearCanvas: clearRect over the whole canvas
clearCanvas ==
    db_layer' = IF db_videoRef THEN <<>> ELSE db_layer

\* click on the clear button
ClearClick ==
    /\ view = "drawing" /\ db_mounted /\ db_isLoaded
    /\ clearCanvas
    /\ lastOp' = "clear"
    /\ UNCHANGED <<hvars, env, ivars, ovars, sim, db_detStamp, dsel, db_mounted, db_videoRef, db_srcObject,
                   db_loadedPending, db_trackLive, db_isLoaded, db_requestRef,
                   db_rafPending, db_handLandmarkerRef, db_pc, db_canvas,
                   db_lastPoint, db_isPinching, db_frames, db_lastDet,
                   db_error>>

\* click on a template: loadTemplate paints it over the layer
LoadTemplate(id) ==
    /\ view = "drawing" /\ db_mounted /\ db_isLoaded
    /\ Stamps(db_layer) < MaxStamps
    /\ db_layer' = IF db_videoRef THEN Append(db_layer, Stamp(id, db_canvas))
                                  ELSE db_layer
    /\ lastOp' = "loadTemplate"
    /\ UNCHANGED <<hvars, env, ivars, ovars, sim, db_detStamp, dsel, db_mounted, db_videoRef, db_srcObject,
                   db_loadedPending, db_trackLive, db_isLoaded, db_requestRef,
                   db_rafPending, db_handLandmarkerRef, db_pc, db_canvas,
                   db_lastPoint, db_isPinching, db_frames, db_lastDet,
                   db_error>>

\* the window fires resize: assigning canvas.width and canvas.height sets
\* the bitmap to the new size and resets it to transparent black
handleResize(size) ==
    /\ view = "drawing" /\ db_mounted
    /\ IF db_videoRef
       THEN db_canvas' = size /\ db_layer' = <<>>
       ELSE UNCHANGED <<db_canvas, db_layer>>
    /\ lastOp' = "resize"
    /\ UNCHANGED <<hvars, env, ivars, ovars, sim, db_detStamp, dsel, db_mounted, db_videoRef, db_srcObject,
                   db_loadedPending, db_trackLive, db_isLoaded, db_requestRef,
                   db_rafPending, db_handLandmarkerRef, db_pc,
                   db_lastPoint, db_isPinching, db_frames, db_lastDet,
                   db_error>>

\* cleanup of the mount effect; ref tells whether videoRef.current is still
\* attached when it runs
CleanupD(ref) ==
    /\ db_mounted' = FALSE
    /\ db_trackLive' = IF ref /\ db_srcObject # 0 THEN "ended" ELSE db_trackLive
    /\ db_rafPending' = IF db_requestRef # 0 THEN FALSE ELSE db_rafPending

\* the component unmounts (onClose): React detaches the refs and runs the
\* effect cleanup, in an order that depends on the React version
UnmountD ==
    /\ view = "drawing" /\ db_mounted
    /\ db_videoRef' = FALSE
    /\ \E detachedFirst \in BOOLEAN : CleanupD(~detachedFirst)
    /\ lastOp' = "unmount"
    /\ UNCHANGED <<hvars, env, ivars, ovars, sim, db_detStamp, dsel, db_srcObject,
                   db_loadedPending, db_isLoaded, db_requestRef,
                   db_handLandmarkerRef, db_pc, db_canvas, db_lastPoint,
                   db_isPinching, db_layer, db_frames, db_lastDet, db_error>>

\* after mount: both effects have run, init() is at its first await
InitD ==
    /\ db_mounted = (view = "drawing")
    /\ db_videoRef = (view = "drawing")
    /\ db_srcObject = 0
    /\ db_loadedPending = FALSE
    /\ db_trackLive = "none"
    /\ db_isLoaded = FALSE
    /\ db_requestRef = 0
    /\ db_rafPending = FALSE
    /\ db_handLandmarkerRef = 0
    /\ db_pc = IF view = "drawing" THEN "awaitVision" ELSE "done"
    /\ db_canvas \in WindowSizes
    /\ db_lastPoint = NoPoint
    /\ db_isPinching = FALSE
    /\ db_layer = <<>>
    /\ db_frames = 0
    /\ db_lastDet = Det("notReady", NoLandmarks)
    /\ db_error = FALSE
    /\ db_tool = "brush"
    /\ db_currentColor = "#ef4444"
    /\ db_brushSize = 8
    /\ db_detStamp = NoCall

NextD ==
    \/ VisionResolvedD
    \/ ModelResolvedD
    \/ RejectedD
    \/ CameraResolvedD
    \/ \E det \in FrameInputsD : OnLoadedDataD(det)
    \/ \E det \in FrameInputsD : AnimationFrameD(det)
    \/ \E t \in Tools : SetTool(t)
    \/ \E c \in COLORS : SetCurrentColor(c)
    \/ \E n \in BrushSizes : SetBrushSize(n)
    \/ ClearClick
    \/ \E id \in TemplateIds : LoadTemplate(id)
    \/ \E size \in ResizeSizes : handleResize(size)
    \/ UnmountD

\* ------------------------------------------------- ImageToolsView: pure
MAX_ATTEMPTS == 10      \* while (attempt < 10)
ScaleUnit    == 1000000 \* fixed-point units of a scale factor

\* a picture the user can pick: its name, MIME type, the length of its
\* base64 text, its dimensions, and how many base64 characters per 1000
\* pixels the canvas encoder needs for its content as PNG and as JPEG of
\* quality 100
ImageFile(name, type, len, w, h, png, jpeg) ==
    [name |-> name, type |-> type, len |-> len, width |-> w, height |-> h,
     png |-> png, jpeg |-> jpeg]

NoFile == ImageFile("", "", 0, 0, 0, 0, 0)

ImageFiles ==
    { \* a 400 x 300 photograph stored as JPEG, 30 kB
      ImageFile("photo.jpg", "image/jpeg", 40000, 400, 300, 2500, 410),
      \* a 100 x 100 icon stored as an optimised palette PNG, 201 bytes
      ImageFile("icon.png", "image/png", 268, 100, 100, 40, 60) }

Formats   == {"image/jpeg", "image/png"}
Qualities == {80, 10}
Scales    == {ScaleUnit, ScaleUnit \div 10}

\* characters every data URL of the format has before any pixel
Overhead(format) == IF format = "image/png" THEN 120 ELSE 800

\* canvas.toDataURL(format, quality).split(',')[1].length for the picture
\* drawn at w x h: PNG ignores the quality, and a canvas without area
\* yields "data:," whose second part is empty
EncodedLength(file, format, quality, w, h) ==
    IF w = 0 \/ h = 0 THEN 0
    ELSE IF format = "image/png"
    THEN Overhead(format) + (w * h * file.png) \div 1000
    ELSE Overhead(format) + (w * h * ((file.jpeg * (20 + quality)) \div 120)) \div 1000

\* what a performCompression call has captured when it starts
Run(file, format, quality, scale) ==
    [file |-> file, format |-> format, quality |-> quality, scale |-> scale]

CompressedImage(len, w, h) == [len |-> len, width |-> w, height |-> h]

NoImage == CompressedImage(0, 0, 0)

RECURSIVE Attempts_NoFallback(_, _, _)
\* the loop without the fallback after it: nothing to publish when the
\* tenth attempt is still too big
Attempts_NoFallback(run, currentScale, attempt) ==
    LET finalW == (run.file.width * currentScale) \div ScaleUnit
        finalH == (run.file.height * currentScale) \div ScaleUnit
        len    == EncodedLength(run.file, run.format, run.quality, finalW, finalH)
    IN  IF len < run.file.len
        THEN CompressedImage(len, finalW, finalH)
        ELSE IF attempt + 1 >= MAX_ATTEMPTS
        THEN NoImage
        ELSE Attempts_NoFallback(run, (currentScale * 95) \div 100, attempt + 1)

RECURSIVE Attempts(_, _, _)
\* the while loop of performCompression from the given attempt on, and the
\* fallback after it: the value handed to setCompressedImage
Attempts(run, currentScale, attempt) ==
    LET finalW == (run.file.width * currentScale) \div ScaleUnit
        finalH == (run.file.height * currentScale) \div ScaleUnit
        len    == EncodedLength(run.file, run.format, run.quality, finalW, finalH)
    IN  IF len < run.file.len
        THEN CompressedImage(len, finalW, finalH)
        ELSE IF attempt + 1 >= MAX_ATTEMPTS
        THEN \* the fallback publishes the last attempt as it is
             CompressedImage(len, finalW, finalH)
        ELSE Attempts(run, (currentScale * 95) \div 100, attempt + 1)

\* compressFormat chosen by handleFileChange for the type of the file
FormatFor(type) == IF type = "image/png" THEN "image/png" ELSE "image/jpeg"

\* --------------------------------------------- ImageToolsView: handlers
\* the user makes an input (file, mode tab, format, slider)
Edit == im_edits < MaxEdits /\ im_edits' = im_edits + 1

\* the debounce effect after a render in which one of its dependencies
\* changed: the cleanup clears the old timer, a new one is set in
\* compress mode when there is a file
Debounce(mode, file) == mode = "compress" /\ file # NoFile

\* the file input changes: handleFileChange
HandleFileChange(f) ==
    /\ Edit
    /\ view = "image"
    \* "Prevent duplicate upload"
    /\ ~(im_file # NoFile /\ im_file.name = f.name /\ im_file.len = f.len)
    /\ im_file' = f
    /\ im_compressed' = NoImage
    /\ im_format' = FormatFor(f.type)
    /\ im_timer' = Debounce(im_mode, f)
    /\ lastOp' = "fileChange"
    /\ UNCHANGED <<hvars, dvars, env, ovars, sim, im_mode, im_quality, im_scale,
                   im_runs, im_isCompressing>>

\* click on a mode tab ('add' behaves as 'remove' for the compression)
SetMode(m) ==
    /\ Edit
    /\ view = "image" /\ m # im_mode
    /\ im_mode' = m
    /\ im_timer' = Debounce(m, im_file)
    /\ lastOp' = "mode"
    /\ UNCHANGED <<hvars, dvars, env, ovars, sim, im_file, im_format, im_quality,
                   im_scale, im_runs, im_compressed, im_isCompressing>>

\* click on a format button (rendered in compress mode)
SetCompressFormat(fmt) ==
    /\ Edit
    /\ view = "image" /\ im_mode = "compress" /\ fmt # im_format
    /\ im_format' = fmt
    /\ im_timer' = Debounce(im_mode, im_file)
    /\ lastOp' = "setting"
    /\ UNCHANGED <<hvars, dvars, env, ovars, sim, im_file, im_mode, im_quality,
                   im_scale, im_runs, im_compressed, im_isCompressing>>

\* the quality slider changes
SetCompressQuality(q) ==
    /\ Edit
    /\ view = "image" /\ im_mode = "compress" /\ q # im_quality
    /\ im_quality' = q
    /\ im_timer' = Debounce(im_mode, im_file)
    /\ lastOp' = "setting"
    /\ UNCHANGED <<hvars, dvars, env, ovars, sim, im_file, im_mode, im_format,
                   im_scale, im_runs, im_compressed, im_isCompressing>>

\* the scale slider changes
SetCompressScale(sc) ==
    /\ Edit
    /\ view = "image" /\ im_mode = "compress" /\ sc # im_scale
    /\ im_scale' = sc
    /\ im_timer' = Debounce(im_mode, im_file)
    /\ lastOp' = "setting"
    /\ UNCHANGED <<hvars, dvars, env, ovars, sim, im_file, im_mode, im_format,
                   im_quality, im_runs, im_compressed, im_isCompressing>>

\* the timer fires 300 ms after the last change: performCompression up to
\* its await
TimerFires ==
    /\ view = "image" /\ im_timer
    /\ im_timer' = FALSE
    /\ IF im_file = NoFile
       THEN UNCHANGED <<im_isCompressing, im_runs>>
       ELSE /\ im_isCompressing' = TRUE
            /\ im_runs' = Append(im_runs,
                                 Run(im_file, im_format, im_quality, im_scale))
    /\ lastOp' = "timer"
    /\ UNCHANGED <<hvars, dvars, env, ovars, sim, im_file, im_mode, im_format,
                   im_quality, im_scale, im_compressed, im_edits>>

\* the waiting calls without the i-th
RemoveAt(runs, i) ==
    [k \in 1 .. Len(runs) - 1 |-> IF k < i THEN runs[k] ELSE runs[k + 1]]

\* img.onload of the i-th waiting call: the rest of performCompression
ImageLoaded(i) ==
    /\ view = "image" /\ i \in DOMAIN im_runs
    /\ im_compressed' = Attempts(im_runs[i], im_runs[i].scale, 0)
    /\ im_isCompressing' = FALSE
    /\ im_runs' = RemoveAt(im_runs, i)
    /\ lastOp' = "compressed"
    /\ UNCHANGED <<hvars, dvars, env, ovars, sim, im_file, im_mode, im_format,
                   im_quality, im_scale, im_timer, im_edits>>

InitI ==
    /\ im_file = NoFile
    /\ im_mode = "remove"
    /\ im_format = "image/jpeg"
    /\ im_quality = 80
    /\ im_scale = ScaleUnit
    /\ im_timer = FALSE
    /\ im_runs = <<>>
    /\ im_compressed = NoImage
    /\ im_isCompressing = FALSE
    /\ im_edits = 0

NextI ==
    \/ \E f \in ImageFiles : HandleFileChange(f)
    \/ \E m \in {"remove", "compress"} : SetMode(m)
    \/ \E fmt \in Formats : SetCompressFormat(fmt)
    \/ \E q \in Qualities : SetCompressQuality(q)
    \/ \E sc \in Scales : SetCompressScale(sc)
    \/ TimerFires
    \/ \E i \in 1 .. MaxEdits : ImageLoaded(i)

\* --------------------------------------------------- ConverterView: pure
\* a document the file input can deliver: name = stem.ext, MIME type
Doc(stem, ext, type) == [stem |-> stem, ext |-> ext, type |-> type]
NoDoc == Doc("", "", "")
Docs == { Doc("report", "pdf", "application/pdf"),
          Doc("notes", "md", "text/markdown") }

\* the formats of the target format buttons
TargetFormats == {"md", "txt", "json", "docx"}

\* the text convertDocument resolves with: made from this document by the
\* prompt of this target format
Content(doc, format) == [of |-> doc.stem, as |-> format]
NoContent == Content(NoDoc, "")

\* an outstanding convertDocument(file.base64, file.type, targetFormat, file.name)
Conversion(doc, format) == [doc |-> doc, format |-> format]
NoConversion == Conversion(NoDoc, "")

\* extension downloadFile gives the saved file
Extension(format) ==
    CASE format = "docx" -> "doc"
      [] format = "pdf"  -> "txt"
      [] OTHER           -> format

\* downloadFile(content, filename, format): the file the browser saves
DownloadFile(content, doc, format) ==
    [content |-> content, stem |-> doc.stem, extension |-> Extension(format)]
NoDownload == [content |-> NoContent, stem |-> "", extension |-> ""]

\* ----------------------------------------------- ConverterView: handlers
EditC == cv_edits < MaxEditsC /\ cv_edits' = cv_edits + 1

\* change event of the file input: handleFileChange up to its await
HandleFileChangeC(f) ==
    /\ EditC
    /\ view = "converter"
    /\ cv_reads' = Append(cv_reads, f)
    /\ lastOp' = "docChange"
    /\ UNCHANGED <<hvars, dvars, env, ivars, pvars, sim, cv_file, cv_targetFormat,
                   cv_isConverting, cv_resultContent, cv_error, cv_call,
                   cv_download>>

\* reader.onload of the i-th outstanding read: the rest of handleFileChange
FileRead(i) ==
    /\ view = "converter" /\ i \in DOMAIN cv_reads
    /\ cv_file' = cv_reads[i]
    /\ cv_resultContent' = NoContent
    /\ cv_error' = ""
    /\ cv_reads' = RemoveAt(cv_reads, i)
    /\ lastOp' = "docRead"
    /\ UNCHANGED <<hvars, dvars, env, ivars, pvars, sim, cv_targetFormat,
                   cv_isConverting, cv_call, cv_download, cv_edits>>

\* reader.onerror of the i-th outstanding read: the catch of handleFileChange
FileReadFailed(i) ==
    /\ view = "converter" /\ i \in DOMAIN cv_reads
    /\ cv_error' = "readFailed"
    /\ cv_reads' = RemoveAt(cv_reads, i)
    /\ lastOp' = "docReadFailed"
    /\ UNCHANGED <<hvars, dvars, env, ivars, pvars, sim, cv_file, cv_targetFormat,
                   cv_isConverting, cv_resultContent, cv_call, cv_download,
                   cv_edits>>

\* click on "remove file" (rendered while a file is selected)
RemoveFile ==
    /\ EditC
    /\ view = "converter" /\ cv_file # NoDoc
    /\ cv_file' = NoDoc
    /\ cv_resultContent' = NoContent
    /\ lastOp' = "docRemove"
    /\ UNCHANGED <<hvars, dvars, env, ivars, pvars, sim, cv_targetFormat,
                   cv_isConverting, cv_error, cv_reads, cv_call, cv_download>>

\* click on a target format button
SetTargetFormat(fmt) ==
    /\ EditC
    /\ view = "converter" /\ fmt # cv_targetFormat
    /\ cv_targetFormat' = fmt
    /\ lastOp' = "targetFormat"
    /\ UNCHANGED <<hvars, dvars, env, ivars, pvars, sim, cv_file, cv_isConverting,
                   cv_resultContent, cv_error, cv_reads, cv_call, cv_download>>

\* click on the convert button (disabled without a file and while
\* converting): handleConvert up to its await
HandleConvert ==
    /\ EditC
    /\ view = "converter" /\ cv_file # NoDoc /\ ~cv_isConverting
    /\ cv_isConverting' = TRUE
    /\ cv_error' = ""
    /\ cv_call' = Conversion(cv_file, cv_targetFormat)
    /\ lastOp' = "convert"
    /\ UNCHANGED <<hvars, dvars, env, ivars, pvars, sim, cv_file, cv_targetFormat,
                   cv_resultContent, cv_reads, cv_download>>

\* convertDocument resolves: the rest of the try block and the finally
ConvertResolved ==
    /\ view = "converter" /\ cv_call # NoConversion
    /\ cv_resultContent' = Content(cv_call.doc, cv_call.format)
    /\ cv_isConverting' = FALSE
    /\ cv_call' = NoConversion
    /\ lastOp' = "converted"
    /\ UNCHANGED <<hvars, dvars, env, ivars, pvars, sim, cv_file, cv_targetFormat,
                   cv_error, cv_reads, cv_download, cv_edits>>

\* convertDocument rejects: the catch block and the finally
ConvertRejected ==
    /\ view = "converter" /\ cv_call # NoConversion
    /\ cv_error' = "convertFailed"
    /\ cv_isConverting' = FALSE
    /\ cv_call' = NoConversion
    /\ lastOp' = "convertFailed"
    /\ UNCHANGED <<hvars, dvars, env, ivars, pvars, sim, cv_file, cv_targetFormat,
                   cv_resultContent, cv_reads, cv_download, cv_edits>>

\* click on the download button (rendered while there is a result)
HandleDownload ==
    /\ EditC
    /\ view = "converter" /\ cv_resultContent # NoContent /\ cv_file # NoDoc
    /\ cv_download' = DownloadFile(cv_resultContent, cv_file, cv_targetFormat)
    /\ lastOp' = "download"
    /\ UNCHANGED <<hvars, dvars, env, ivars, pvars, sim, cv_file, cv_targetFormat,
                   cv_isConverting, cv_resultContent, cv_error, cv_reads,
                   cv_call>>

InitC ==
    /\ cv_file = NoDoc
    /\ cv_targetFormat = "md"
    /\ cv_isConverting = FALSE
    /\ cv_resultContent = NoContent
    /\ cv_error = ""
    /\ cv_reads = <<>>
    /\ cv_call = NoConversion
    /\ cv_download = NoDownload
    /\ cv_edits = 0

NextC ==
    \/ \E f \in Docs : HandleFileChangeC(f)
    \/ \E i \in 1 .. MaxEditsC : FileRead(i)
    \/ \E i \in 1 .. MaxEditsC : FileReadFailed(i)
    \/ RemoveFile
    \/ \E fmt \in TargetFormats : SetTargetFormat(fmt)
    \/ HandleConvert
    \/ ConvertResolved
    \/ ConvertRejected
    \/ HandleDownload

\* ------------------------------------------------- PhotoStudioView: pure
\* ids of PORTRAIT_STYLES, in the order of the array
PORTRAIT_STYLES ==
    <<"professional", "fashion", "gallery", "bw_art", "magazine", "cinematic">>

\* parts of a response: inline data ("" when there is none) and text
Part(data, text) == [data |-> data, text |-> text]

\* how one generateContent call can settle: resolved with the parts of its
\* first candidate (hasParts FALSE: no candidate or no content), or
\* rejected with an Error of the given message; a text is the sequence of
\* the pieces it is concatenated from, the empty text has none
Resolved(parts) == [kind |-> "resolved", hasParts |-> TRUE, parts |-> parts, message |-> <<>>]
NoCandidates    == [kind |-> "resolved", hasParts |-> FALSE, parts |-> <<>>, message |-> <<>>]
Rejected(message) == [kind |-> "rejected", hasParts |-> FALSE, parts |-> <<>>, message |-> message]

Responses ==
    { Resolved(<<Part("", "Here it is"), Part("iVBOR", "")>>),
      Resolved(<<Part("", "I cannot do that")>>),
      NoCandidates,
      Rejected(<<"quota exceeded">>),
      Rejected(<<>>) }

RECURSIVE Extract(_, _, _)
\* the for loop over the parts from the i-th on: the first inline data and
\* the text collected before it
Extract(parts, i, textOutput) ==
    IF i > Len(parts) THEN [imageBase64 |-> "", textOutput |-> textOutput]
    ELSE IF parts[i].data # ""
    THEN [imageBase64 |-> parts[i].data, textOutput |-> textOutput]
    ELSE Extract(parts, i + 1,
                 IF parts[i].text # "" THEN textOutput \o <<parts[i].text>>
                                       ELSE textOutput)

\* a || b on texts: the empty text is falsy
OrDefault(a, b) == IF a = <<>> THEN b ELSE a

\* a PortraitResult; image "" stands for null, error <<>> for an absent
\* error property
PortraitResult(styleId, image, error) ==
    [state |-> "fulfilled", styleId |-> styleId, image |-> image, error |-> error]

\* the promise of a style that has not settled, and one that rejects
PendingResult  == [state |-> "pending", styleId |-> "", image |-> "", error |-> <<>>]
RejectedResult(error) == [state |-> "rejected", styleId |-> "", image |-> "", error |-> error]

\* the callback of PORTRAIT_STYLES.map without its try and catch
StylePromise_NoCatch(styleId, response) ==
    IF response.kind = "rejected" THEN RejectedResult(response.message)
    ELSE LET e == Extract(response.parts, 1, <<>>)
         IN  IF e.imageBase64 = ""
             THEN RejectedResult(OrDefault(e.textOutput, <<"No image returned">>))
             ELSE PortraitResult(styleId, e.imageBase64, <<>>)

\* the callback of PORTRAIT_STYLES.map for a style whose generateContent
\* call settles with the response: what its promise settles with
StylePromise(styleId, response) ==
    IF response.kind = "rejected"
    THEN PortraitResult(styleId, "", OrDefault(response.message, <<"generation failed">>))
    ELSE LET e == Extract(response.parts, 1, <<>>)
         IN  IF e.imageBase64 = ""
             THEN PortraitResult(styleId, "",
                      OrDefault(OrDefault(e.textOutput, <<"No image returned">>),
                                <<"generation failed">>))
             ELSE PortraitResult(styleId, e.imageBase64, <<>>)

\* Promise.all: rejects as soon as one promise has rejected, is fulfilled
\* when all are, pending otherwise
PromiseAll(promises) ==
    IF \E i \in DOMAIN promises : promises[i].state = "rejected" THEN "rejected"
    ELSE IF \E i \in DOMAIN promises : promises[i].state = "pending" THEN "pending"
    ELSE "fulfilled"

\* a photograph the file input can deliver
Photo(name, type) == [name |-> name, type |-> type]
NoPhoto == Photo("", "")
Photos == { Photo("me.jpg", "image/jpeg"), Photo("cv.pdf", "application/pdf") }

\* --------------------------------------------- PhotoStudioView: handlers
EditP == ps_edits < MaxEditsP /\ ps_edits' = ps_edits + 1

\* change event of the file input (disabled while processing):
\* handleFileChange up to its await
HandleFileChangeP(f) ==
    /\ EditP
    /\ view = "photo" /\ ~ps_isProcessing
    /\ IF f.type \in {"image/jpeg", "image/png"}
       THEN /\ ps_reads' = Append(ps_reads, f)
            /\ UNCHANGED ps_error
       ELSE /\ ps_error' = "notAnImage"
            /\ UNCHANGED ps_reads
    /\ lastOp' = "photoChange"
    /\ UNCHANGED <<hvars, dvars, env, ivars, cvars, sim, hasApiKey, ps_file,
                   ps_isProcessing, ps_results, ps_calls>>

\* reader.onload of the i-th outstanding read: the rest of handleFileChange
PhotoRead(i) ==
    /\ view = "photo" /\ i \in DOMAIN ps_reads
    /\ ps_file' = ps_reads[i]
    /\ ps_results' = <<>>
    /\ ps_error' = ""
    /\ ps_reads' = RemoveAt(ps_reads, i)
    /\ lastOp' = "photoRead"
    /\ UNCHANGED <<hvars, dvars, env, ivars, cvars, sim, hasApiKey,
                   ps_isProcessing, ps_calls, ps_edits>>

\* click on the generate button (disabled without a file and while
\* processing): handleGenerate up to its await, and generatePortraitSeries
\* up to Promise.all; getClient throws without an API key, which rejects
\* the series at once
HandleGenerate ==
    /\ EditP
    /\ view = "photo" /\ ps_file # NoPhoto /\ ~ps_isProcessing
    /\ ps_results' = <<>>
    /\ IF hasApiKey
       THEN /\ ps_isProcessing' = TRUE
            /\ ps_error' = ""
            /\ ps_calls' = [i \in DOMAIN PORTRAIT_STYLES |-> PendingResult]
            /\ lastOp' = "generate"
       ELSE /\ ps_isProcessing' = FALSE
            /\ ps_error' = "noApiKey"
            /\ ps_calls' = <<>>
            /\ lastOp' = "generateFailed"
    /\ UNCHANGED <<hvars, dvars, env, ivars, cvars, sim, hasApiKey, ps_file,
                   ps_reads>>

\* the generateContent call of the i-th style settles
StyleSettles(i, response) ==
    /\ view = "photo" /\ i \in DOMAIN ps_calls
    /\ ps_calls[i].state = "pending"
    /\ ps_calls' = [ps_calls EXCEPT ![i] = StylePromise(PORTRAIT_STYLES[i], response)]
    /\ lastOp' = "styleSettled"
    /\ UNCHANGED <<hvars, dvars, env, ivars, cvars, sim, hasApiKey, ps_file,
                   ps_isProcessing, ps_results, ps_error, ps_reads, ps_edits>>

\* Promise.all settles: the rest of handleGenerate
SeriesSettles ==
    /\ view = "photo" /\ ps_calls # <<>>
    /\ PromiseAll(ps_calls) # "pending"
    /\ IF PromiseAll(ps_calls) = "fulfilled"
       THEN /\ ps_results' = ps_calls
            /\ lastOp' = "generated"
            /\ UNCHANGED ps_error
       ELSE /\ ps_error' = "seriesRejected"
            /\ lastOp' = "generateFailed"
            /\ UNCHANGED ps_results
    /\ ps_isProcessing' = FALSE
    /\ ps_calls' = <<>>
    /\ UNCHANGED <<hvars, dvars, env, ivars, cvars, sim, hasApiKey, ps_file,
                   ps_reads, ps_edits>>

InitP ==
    /\ hasApiKey \in (IF view = "photo" THEN BOOLEAN ELSE {TRUE})
    /\ ps_file = NoPhoto
    /\ ps_isProcessing = FALSE
    /\ ps_results = <<>>
    /\ ps_error = ""
    /\ ps_reads = <<>>
    /\ ps_calls = <<>>
    /\ ps_edits = 0

NextP ==
    \/ \E f \in Photos : HandleFileChangeP(f)
    \/ \E i \in 1 .. MaxEditsP : PhotoRead(i)
    \/ HandleGenerate
    \/ \E i \in DOMAIN PORTRAIT_STYLES, r \in Responses : StyleSettles(i, r)
    \/ SeriesSettles

\* ------------------------------------------ scripted hand (particle view)
\* a hand held at one place: as a fist and as a palm with the same wrist
\* and knuckle, hence the same anchor
Scenario(l0, l9, fistTip, palmTip) ==
    [fist |-> Pose(l0, l9, fistTip), palm |-> Pose(l0, l9, palmTip)]

Scenarios ==
    { Scenario(<<8, 12>>, <<8, 4>>, <<8, 8>>, <<8, 0>>),       \* anchor (320, 240)
      Scenario(<<16, 2>>, <<16, 0>>, <<16, 1>>, <<13, 2>>),    \* anchor (0, 30)
      Scenario(<<1, 14>>, <<1, 12>>, <<1, 13>>, <<1, 10>>) }   \* anchor (600, 390)

\* particle arrays the mount effect may create
SimParticleArrays ==
    { <<Particle(W \div 2, H \div 2, 0, 0),
        Particle(W - 10, H - 10, SCALE - 2, SCALE - 2),
        Particle(5, 5, -SCALE, -SCALE)>>,
      <<Particle(100 * SCALE, 100 * SCALE, 10, -10),
        Particle(500 * SCALE, 400 * SCALE, -SCALE, 5),
        Particle(330 * SCALE, 20 * SCALE, 0, SCALE - 1)>>,
      <<Particle(0, H - 1, -SCALE, SCALE - 1),
        Particle(W - 1, 0, SCALE - 1, -SCALE),
        Particle(260 * SCALE, 240 * SCALE, -SCALE, 0)>> }

\* the Math.random() draws the script uses in every frame
SimDraws == [i \in 1 .. 3 |-> <<0, 3>>]

RECURSIVE SumDist(_, _, _)
\* sum of the distances of particles i .. Len(ps) to hc
SumDist(ps, hc, i) ==
    IF i > Len(ps) THEN Num(0)
    ELSE FAdd(FHypot(FSub(ps[i].x, hc.x), FSub(ps[i].y, hc.y)),
              SumDist(ps, hc, i + 1))

\* average distance of the particles to hc
AvgDist(ps, hc) == FScale(SumDist(ps, hc, 1), 1, Len(ps))

\* the script has not started
SimOff ==
    [phase |-> "off", k |-> 0, d0 |-> Num(0),
     sc |-> Scenario(<<0, 0>>, <<0, 0>>, <<0, 0>>, <<0, 0>>)]

\* the pose the scripted hand shows in the next frame, and the phase the
\* script is in after that frame
SimPose == IF sim.phase = "closed" /\ sim.k < ClosedFrames
           THEN sim.sc.fist ELSE sim.sc.palm

SimAfter ==
    IF sim.phase = "closed" /\ sim.k = ClosedFrames
    THEN [sim EXCEPT !.phase = "open", !.k = 1,
                     !.d0 = AvgDist(particlesRef, PalmCenter(sim.sc.palm))]
    ELSE [sim EXCEPT !.k = sim.k + 1]

\* loadeddata with the scripted hand in front of the camera: the handler
\* set by startCamera, its frame sees the fist of scenario sc
SimLoadedData(sc) ==
    /\ loadedPending /\ srcObject # 0
    /\ sim.phase = "off"
    /\ loadedPending' = FALSE
    /\ isCameraActive' = SetState(mountedH, TRUE, isCameraActive)
    /\ isLoading' = SetState(mountedH, FALSE, isLoading)
    /\ statusMessage' = SetState(mountedH, "placeHand", statusMessage)
    /\ predictWebcam(Det("hand", sc.fist), SimDraws, FALSE)
    /\ sim' = [phase |-> "closed", k |-> 1, sc |-> sc,
               d0 |-> AvgDist(particlesRef, PalmCenter(sc.fist))]
    /\ stopsInRow' = 0
    /\ lastOp' = "loadeddata"
    /\ UNCHANGED <<dvars, env, ivars, ovars, mountedH, videoRef, srcObject,
                   trackLive, handLandmarkerRef, pcH, streams>>

\* the animation frame callback with the scripted hand in front of the
\* camera
SimAnimationFrame ==
    /\ view = "hand" /\ rafPending
    /\ sim.phase \in {"closed", "open"}
    /\ sim.phase = "open" => sim.k < OpenFrames
    /\ predictWebcam(Det("hand", SimPose), SimDraws, TRUE)
    /\ sim' = SimAfter
    /\ stopsInRow' = 0
    /\ lastOp' = "frame"
    /\ UNCHANGED <<dvars, env, ivars, ovars, mountedH, videoRef, srcObject,
                   loadedPending, trackLive, isCameraActive, isLoading,
                   statusMessage, handLandmarkerRef, pcH, streams>>

\* the particle view has just been mounted in front of the scripted hand
InitSim ==
    /\ view = "hand"
    /\ hasMediaDevices = TRUE
    /\ strokesZeroLength = FALSE
    /\ coarseClock = FALSE
    /\ InitHFrom(SimParticleArrays)
    /\ InitD
    /\ InitI
    /\ InitC
    /\ InitP
    /\ sim = SimOff
    /\ lastOp = "mount"

NextSim ==
    \/ InitializeHandLandmarker
    \/ VisionResolved
    \/ ModelResolved
    \/ CameraResolved
    \/ \E sc \in Scenarios : SimLoadedData(sc)
    \/ SimAnimationFrame

SpecSim == InitSim /\ [][NextSim]_vars

\* ------------------------------------------ the full particle collection
PARTICLE_COUNT == 300

\* the i-th particle the mount effect creates, for one sequence of
\* Math.random() draws: x, y on the canvas, vx, vy in [-1, 1) pixel per
\* frame, size in [1, 4), one of the bluish base colours
EnsembleParticle(i) ==
    [Particle((i * 977) % W, (i * 613) % H,
              ((i * 7) % (2 * SCALE)) - SCALE,
              ((i * 11) % (2 * SCALE)) - SCALE)
        EXCEPT !.size = 1 + (i % 3),
               !.color = <<"rgba(100, 155, 255, 0.8)",
                           "rgba(149, 254, 255, 0.8)",
                           "rgba(120, 200, 255, 0.8)">>[1 + (i % 3)]]

\* particlesRef.current after the mount effect
Ensemble == [i \in 1 .. PARTICLE_COUNT |-> EnsembleParticle(i)]

\* what the detector reports in a frame: no hand, a palm, a fist
EnsembleInputs ==
    { Det("noHand", NoLandmarks),
      Det("hand", Pose(<<8, 12>>, <<8, 4>>, <<8, 0>>)),
      Det("hand", Pose(<<16, 2>>, <<16, 0>>, <<16, 1>>)) }

\* the Math.random() draws of one frame, a pair per particle
EnsembleDraws ==
    { [i \in 1 .. Len(particlesRef) |-> <<(i % 2) * 3, ((i + 1) % 2) * 3>>] }

\* the particle view has just been mounted with all its particles
InitEnsemble ==
    /\ view = "hand"
    /\ hasMediaDevices = TRUE
    /\ strokesZeroLength = FALSE
    /\ coarseClock = FALSE
    /\ InitHFrom({Ensemble})
    /\ InitD
    /\ InitI
    /\ InitC
    /\ InitP
    /\ sim = SimOff
    /\ lastOp = "mount"

NextEnsemble ==
    \/ InitializeHandLandmarker
    \/ VisionResolved
    \/ ModelResolved
    \/ ModelRejected
    \/ CameraResolved
    \/ \E name \in CameraErrors : CameraRejected(name)
    \/ \E det \in EnsembleInputs, rs \in EnsembleDraws : OnLoadedData(det, rs)
    \/ \E det \in EnsembleInputs, rs \in EnsembleDraws : AnimationFrame(det, rs)
    \/ StopClick
    \/ UnmountH

SpecEnsemble == InitEnsemble /\ [][NextEnsemble]_vars

\* a view has just been mounted
Mounted ==
    /\ view \in {"hand", "drawing", "image", "converter"}
    /\ hasMediaDevices \in (IF view \in {"hand", "drawing"} THEN BOOLEAN
                                                            ELSE {TRUE})
    /\ strokesZeroLength \in (IF view = "drawing" THEN BOOLEAN ELSE {FALSE})
    /\ InitH
    /\ InitD
    /\ InitI
    /\ InitC
    /\ InitP
    /\ sim = SimOff
    /\ lastOp = "mount"

\* in a browser whose clock tells consecutive frames apart
Init == Mounted /\ coarseClock = FALSE

\* in a browser whose clock is clamped to more than a frame interval
InitCoarseClock == Mounted /\ coarseClock = TRUE

Next == NextH \/ NextD \/ NextI \/ NextC

Spec == Init /\ [][Next]_vars

SpecCoarseClock == InitCoarseClock /\ [][Next]_vars

\* the photo studio has just been mounted
InitPhoto ==
    /\ view = "photo"
    /\ hasMediaDevices = TRUE
    /\ strokesZeroLength = FALSE
    /\ coarseClock = FALSE
    /\ InitH
    /\ InitD
    /\ InitI
    /\ InitC
    /\ InitP
    /\ sim = SimOff
    /\ lastOp = "mount"

SpecPhoto == InitPhoto /\ [][NextP]_vars

\* ================================================================ claims
InBounds(p) ==
    /\ ~p.x.nan /\ 0 <= p.x.v /\ p.x.v <= W
    /\ ~p.y.nan /\ 0 <= p.y.v /\ p.y.v <= H

NoLiveTrack == \A s \in Streams : trackLive[s] # "live"

\* C1: particle view - after every simulation step every particle satisfies
\* 0 <= x <= 640 and 0 <= y <= 480, whatever the gesture, the anchor and
\* the initial particles.
C1_ParticlesInBounds ==
    \A i \in 1 .. Len(particlesRef) : InBounds(particlesRef[i])

\* C2: particle view - after the stop button ran stopCamera from Running,
\* the render-loop callback is cancelled, every track is stopped, the
\* stream handle is cleared and the status is idle again.
C2_StopReleases ==
    lastOp = "stopClick" =>
        /\ ~rafPending
        /\ NoLiveTrack
        /\ srcObject = 0
        /\ ~isCameraActive /\ statusMessage = "ready"

C2_Witness ==
    /\ lastOp = "stopClick" /\ frames >= 2
    /\ trackLive[1] = "ended" /\ requestRef >= 2

\* the state stopCamera is about
StopFields ==
    <<srcObject, trackLive, statusMessage, isCameraActive, rafPending>>

\* C3: a stopCamera call that directly follows another stopCamera call
\* raises no error and changes nothing of the stream handle, the track
\* states, the status, the active flag and the pending callback; the same
\* for a call made while already Stopped.
C3_StopIdempotent ==
    [][(\/ stopsInRow' >= 2
        \/ /\ stopsInRow' = stopsInRow + 1
           /\ ~isCameraActive /\ srcObject = 0 /\ ~rafPending
           /\ statusMessage = "ready")
       => (StopFields' = StopFields /\ ~errorH')]_vars

C3_Witness ==
    /\ stopsInRow = 2 /\ lastOp = "unmount"
    /\ trackLive[1] = "ended" /\ frames >= 1

\* C4: both views - a teardown while Running (no explicit stop before it)
\* stops every media track, cancels the pending render-loop callback and
\* clears the stream handle.
C4_TeardownReleases ==
    /\ (view = "hand" /\ ~mountedH /\ isCameraActive) =>
           (NoLiveTrack /\ ~rafPending /\ srcObject = 0)
    /\ (view = "drawing" /\ ~db_mounted /\ db_isLoaded) =>
           (db_trackLive # "live" /\ ~db_rafPending /\ db_srcObject = 0)

\* C5: both views - after a teardown during Starting, once the in-flight
\* acquisitions have completed, no media track is live and no render-loop
\* callback is scheduled.
C5_TeardownWhileStarting ==
    /\ (view = "hand" /\ ~mountedH /\ isLoading /\ pcH = "idle") =>
           (NoLiveTrack /\ ~rafPending)
    /\ (view = "drawing" /\ ~db_mounted /\ ~db_isLoaded /\ db_pc = "done") =>
           (db_trackLive # "live" /\ ~db_rafPending)

\* C6: both views - a frame of the render loop executes only when the
\* landmark model of the session has finished loading and the current
\* stream has fired loadeddata.
C6_FrameNeedsModelAndCamera ==
    [][/\ (frames' = frames + 1) =>
              /\ handLandmarkerRef' # 0 /\ pcH' = "idle"
              /\ srcObject' # 0 /\ trackLive'[srcObject'] = "live"
              /\ ~loadedPending'
       /\ (db_frames' = db_frames + 1) =>
              /\ db_handLandmarkerRef' # 0 /\ db_pc' = "done"
              /\ db_srcObject' # 0 /\ db_trackLive' = "live"
              /\ ~db_loadedPending']_vars

C6_Witness ==
    /\ view = "hand" /\ lastOp = "loadeddata" /\ frames >= 2 /\ rafPending
    /\ handLandmarkerRef = 2 /\ streams = 2 /\ srcObject = 2

\* C7: particle view - a frame whose detector call throws is processed
\* with gesture state none and the anchor at the surface centre, and the
\* next render-loop callback is scheduled.
C7_DetectorFailureKeepsLoop ==
    [][(frames' = frames + 1 /\ lastDet'.kind = "throw") =>
          /\ handState' = "none" /\ handCenter' = CanvasCenter
          /\ rafPending' /\ requestRef' = requestRef + 1
          /\ ~errorH']_vars

C7_Witness ==
    /\ lastDet.kind = "throw" /\ lastOp = "frame"
    /\ frames = MaxFrames /\ rafPending

\* C8: drawing view - a frame whose detector call throws is treated as
\* no-hand and the next render-loop callback is scheduled.
C8_DetectorFailureKeepsLoopD ==
    [][(db_frames' = db_frames + 1 /\ db_lastDet'.kind = "throw") =>
          (db_rafPending' /\ ~db_error')]_vars

HFailureOps == CameraErrors \cup {"modelRejected", "unsupported"}

\* the message of the category of a failed start
FailureMessage(op) ==
    IF op = "modelRejected" THEN "modelLoadFailed"
    ELSE IF op = "unsupported" THEN "unsupported"
    ELSE IF op = "NotFoundError" THEN "deviceNotFound"
    ELSE IF op = "OtherError" THEN "cameraError"
    ELSE "permissionDenied"

\* C9: particle view - after a failed model load or camera acquisition the
\* view is Stopped again (not loading, not active, start possible), shows
\* the message of the failure's category, and no render loop runs.
C9_StartFailure ==
    (view = "hand" /\ mountedH /\ lastOp \in HFailureOps) =>
        /\ ~isLoading /\ ~isCameraActive /\ pcH = "idle"
        /\ statusMessage = FailureMessage(lastOp)
        /\ ~rafPending /\ srcObject = 0 /\ ~loadedPending

C9_Witness ==
    /\ view = "hand" /\ mountedH /\ lastOp = "NotFoundError"
    /\ statusMessage = "deviceNotFound" /\ ~isLoading

\* the loading overlay of the drawing board is rendered
LoadingOverlay == ~db_isLoaded

DFailureOps == {"modelRejected", "cameraRejected", "unsupported"}

\* C10: drawing view - after a failed model load or camera acquisition, or
\* without a camera API, the view has left the loading state.
C10_FailureLeavesLoading ==
    (view = "drawing" /\ db_mounted /\ lastOp \in DFailureOps) =>
        ~LoadingOverlay

\* a frame of the drawing board executes in this step
FrameD == db_frames' = db_frames + 1

\* the stroke the step has painted last
NewStroke == db_layer'[Len(db_layer')]

\* C11: drawing view - the stroke a pinching frame commits uses the tool,
\* the colour and the width selected in the tool bar at that frame.
C11_StrokeUsesSelection ==
    [][(FrameD /\ Len(db_layer') = Len(db_layer) + 1) =>
          /\ NewStroke.op = (IF db_tool = "eraser" THEN "destination-out"
                                                   ELSE "source-over")
          /\ NewStroke.width = (IF db_tool = "eraser" THEN db_brushSize * 3
                                                      ELSE db_brushSize)
          /\ (db_tool = "brush" => NewStroke.color = db_currentColor)]_vars

\* the frame of this step sees a hand and classifies it as pinching
PinchFrameD ==
    /\ FrameD /\ db_lastDet'.kind = "hand"
    /\ IsPinchNow(db_lastDet'.lm, db_canvas)

\* C12: drawing view - a frame that sees a hand that is not pinching
\* clears the previous anchor, and the first pinching frame after frames
\* without a pinch commits no segment that starts at an earlier point.
C12_ReleaseClearsAnchor ==
    [][/\ (FrameD /\ db_lastDet'.kind = "hand"
                  /\ ~IsPinchNow(db_lastDet'.lm, db_canvas))
              => db_lastPoint'.none
       /\ (PinchFrameD /\ ~db_isPinching /\ Len(db_layer') = Len(db_layer) + 1)
              => NewStroke.from = NewStroke.to]_vars

\* C13: drawing view - a pinching frame at B that directly follows a
\* pinching frame at A (A # B) commits exactly one segment, from A to B.
C13_ConsecutivePinchOneSegment ==
    [][(/\ PinchFrameD
        /\ db_lastDet.kind = "hand" /\ db_isPinching /\ ~db_lastPoint.none
        /\ <<db_lastPoint.x, db_lastPoint.y>> # <<db_lastPoint'.x, db_lastPoint'.y>>)
       => /\ Len(db_layer') = Len(db_layer) + 1
          /\ SubSeq(db_layer', 1, Len(db_layer)) = db_layer
          /\ NewStroke.from = <<db_lastPoint.x, db_lastPoint.y>>
          /\ NewStroke.to = <<db_lastPoint'.x, db_lastPoint'.y>>]_vars

\* C14: drawing view - a pinching frame without a previous anchor paints
\* nothing on the raster layer and records the current anchor.
C14_FirstPinchDrawsNothing ==
    [][(PinchFrameD /\ db_lastPoint.none) =>
          /\ db_layer' = db_layer
          /\ db_lastPoint' = Point(MapX(db_lastDet'.lm.l8, db_canvas),
                                   MapY(db_lastDet'.lm.l8, db_canvas))]_vars

\* C15: a frame in which the detector finds no hand has gesture state none
\* (particle view) / not pinching (drawing view); the drawing view clears
\* its last anchor and leaves the raster layer as it was.
C15_NoHandFrame ==
    [][/\ (frames' = frames + 1 /\ lastDet'.kind = "noHand")
              => handState' = "none"
       /\ (FrameD /\ db_lastDet'.kind = "noHand")
              => /\ ~db_isPinching'
                 /\ db_lastPoint' = NoPoint
                 /\ db_layer' = db_layer]_vars

C15_Witness ==
    /\ view = "drawing" /\ lastOp = "frame" /\ db_frames = MaxFramesD
    /\ db_lastDet.kind = "noHand" /\ db_lastPoint.none /\ ~db_isPinching
    /\ Len(db_layer) >= 2

\* C16: drawing view - the raster layer goes from non-empty to empty only
\* in the explicit clear operation.
C16_OnlyClearWipes ==
    [][(db_layer # <<>> /\ db_layer' = <<>>) => lastOp' = "clear"]_vars

\* C17: drawing view - the clear operation leaves the raster layer empty
\* whatever the gesture state, the tool and the layer were, and leaves the
\* pinch flag and the last anchor as they were.
C17_ClearWipesAll ==
    [][(lastOp' = "clear") =>
          /\ db_layer' = <<>>
          /\ db_isPinching' = db_isPinching
          /\ db_lastPoint' = db_lastPoint]_vars

C17_Witness ==
    /\ lastOp = "clear" /\ db_layer = <<>>
    /\ db_isPinching /\ db_lastDet.kind = "hand" /\ ~db_lastPoint.none
    /\ db_tool = "eraser" /\ db_frames >= 2

\* 16 x 16 x the square of the pixel distance between index tip and thumb
\* tip on a canvas of the given size
PixelDistSq(lm, canvas) ==
    LET dx == (lm.l8[1] - lm.l4[1]) * canvas[1]
        dy == (lm.l8[2] - lm.l4[2]) * canvas[2]
    IN  dx * dx + dy * dy

\* C18: drawing view - a frame with a hand is classified as pinching iff
\* the pixel distance of index tip and thumb tip is strictly below 60.
C18_PinchThreshold ==
    [][(FrameD /\ db_lastDet'.kind = "hand") =>
          (db_isPinching' <=>
              PixelDistSq(db_lastDet'.lm, db_canvas) < 60 * 60 * NORM * NORM)]_vars

\* tips exactly 60 px apart: not pinching
C18_Witness ==
    /\ lastOp = "frame" /\ db_lastDet.kind = "hand"
    /\ db_canvas = <<960, 480>>
    /\ PixelDistSq(db_lastDet.lm, db_canvas) = 60 * 60 * NORM * NORM
    /\ ~db_isPinching

\* squared distances wrist - middle tip and wrist - middle knuckle
TipSq(lm) == (lm.l12[1] - lm.l0[1]) * (lm.l12[1] - lm.l0[1])
             + (lm.l12[2] - lm.l0[2]) * (lm.l12[2] - lm.l0[2])
McpSq(lm) == (lm.l9[1] - lm.l0[1]) * (lm.l9[1] - lm.l0[1])
             + (lm.l9[2] - lm.l0[2]) * (lm.l9[2] - lm.l0[2])

\* C19: particle view - a frame with a keypoint set that has the wrist,
\* the middle knuckle and the middle tip is closed iff
\* dist(wrist, tip) < 1.2 * dist(wrist, knuckle), and open otherwise.
C19_OpenClosed ==
    [][(frames' = frames + 1 /\ lastDet'.kind = "hand" /\ lastDet'.lm.n > 12) =>
          handState' = (IF 100 * TipSq(lastDet'.lm) < 144 * McpSq(lastDet'.lm)
                        THEN "closed" ELSE "open")]_vars

\* wrist (0,0), knuckle (0,10), tip (0,5): closed
C19_Witness ==
    /\ lastOp = "frame" /\ lastDet.kind = "hand"
    /\ lastDet.lm = Pose(<<0, 0>>, <<0, 10>>, <<0, 5>>)
    /\ handState = "closed"

\* C20: particle view - every frame hands one of none / open / closed to
\* the simulation without an error, and none when the detector output is
\* missing or has fewer than 21 points.
C20_StateAlwaysValid ==
    [][(frames' = frames + 1) =>
          /\ handState' \in {"none", "open", "closed"}
          /\ ~errorH'
          /\ (lastDet'.kind # "hand" \/ lastDet'.lm.n < 21)
                 => handState' = "none"]_vars

\* the particle view is Stopped (after a stop or a failed start, before the
\* next start) or torn down
StoppedH == ~mountedH \/ (~isLoading /\ ~isCameraActive)

\* C21: after a stop or a teardown no simulation step is applied until the
\* next start: a handler that runs while the particle view is Stopped or
\* torn down executes no frame and leaves the particle array, the gesture
\* state and the anchor as they were; a handler that runs after the
\* teardown of the drawing view executes no frame and leaves the raster
\* layer and the last anchor as they were.
C21_NoStepAfterStop ==
    [][/\ (view = "hand" /\ StoppedH) =>
              /\ frames' = frames
              /\ particlesRef' = particlesRef
              /\ handState' = handState /\ handCenter' = handCenter
       /\ (view = "drawing" /\ ~db_mounted) =>
              /\ db_frames' = db_frames
              /\ db_layer' = db_layer
              /\ db_lastPoint' = db_lastPoint]_vars

\* the loadeddata event of a stream that was attached before the teardown
\* arrives after it, and its handler has executed no frame
C21_Witness ==
    /\ view = "hand" /\ ~mountedH /\ lastOp = "loadeddata"
    /\ srcObject # 0 /\ handLandmarkerRef # 0 /\ frames = 0 /\ ~rafPending

\* C22: per view at most one camera session is active: at most one stream
\* has live tracks in any state, and a session of the particle view starts
\* only from Stopped (not loading, not active, no stream attached, no
\* callback scheduled, no live track); the drawing view starts its only
\* session at mount.
C22_OneSession ==
    [][/\ Cardinality({s \in Streams : trackLive'[s] = "live"}) <= 1
       /\ (pcH = "idle" /\ pcH' # "idle") =>
              /\ mountedH /\ ~isLoading /\ ~isCameraActive
              /\ srcObject = 0 /\ ~loadedPending /\ ~rafPending
              /\ NoLiveTrack
       /\ (db_pc' = "awaitVision") => (db_pc = "awaitVision")]_vars

\* the second session is Running after the first one was stopped
C22_Witness ==
    /\ view = "hand" /\ streams = 2 /\ srcObject = 2 /\ isCameraActive
    /\ trackLive[1] = "ended" /\ trackLive[2] = "live"
    /\ rafPending /\ frames >= 1

\* C30: drawing view - a pinching frame with the eraser selected commits
\* its segment in the removing mode, 3 times as wide as the brush size,
\* and a template stamped afterwards paints in the normal mode.
C30_EraserRemoves ==
    [][/\ (PinchFrameD /\ db_tool = "eraser"
                      /\ Len(db_layer') = Len(db_layer) + 1) =>
              /\ NewStroke.op = "destination-out"
              /\ NewStroke.width = 3 * db_brushSize
              /\ NewStroke.width > db_brushSize
       /\ (lastOp' = "loadTemplate" /\ Len(db_layer') = Len(db_layer) + 1) =>
              NewStroke.op = "source-over"]_vars

\* the frame of this step has called the detector
DetectorCalled == frames' = frames + 1 /\ lastDet'.kind # "notReady"
DetectorCalledD == FrameD /\ db_lastDet'.kind # "notReady"

\* positions of the events named ev in a frame log
Positions(log, ev) == {k \in DOMAIN log : log[k].ev = ev}

\* C23: within a session a frame calls the detector at most once, and
\* every call after the first of a landmarker carries a timestamp strictly
\* greater than the call before it (both views).
C23_StrictTimestamps ==
    [][/\ (frames' = frames + 1) =>
              Cardinality(Positions(frameLog', "detect")) <= 1
       /\ (DetectorCalled /\ detStamp # NoCall) => detStamp' > 0
       /\ (DetectorCalledD /\ db_detStamp # NoCall) => db_detStamp' > 0]_vars

\* C24: particle view - a frame that finds the video without dimensions
\* does not call the detector, simulates every particle with gesture state
\* none around the surface centre, draws, and schedules the next callback.
C24_NotReadyFrame ==
    [][(frames' = frames + 1 /\ lastDet'.kind = "notReady") =>
          /\ detStamp' = detStamp
          /\ Positions(frameLog', "detect") = {}
          /\ handState' = "none" /\ handCenter' = CanvasCenter
          /\ \A i \in 1 .. Len(particlesRef) :
                 \E rx, ry \in RandomQuarters :
                     particlesRef'[i] =
                         StepParticle(particlesRef[i], "none", CanvasCenter, rx, ry)
          /\ Cardinality(Positions(frameLog', "draw")) = LoggedParticles
          /\ rafPending' /\ requestRef' = requestRef + 1]_vars

\* two frames in a row without video dimensions: the detector was never
\* called and the loop is still scheduled
C24_Witness ==
    /\ lastDet.kind = "notReady" /\ lastOp = "frame" /\ frames = MaxFrames
    /\ detStamp = NoCall /\ handState = "none"
    /\ rafPending /\ requestRef = MaxFrames

\* C28 as stated: within a frame the classification precedes every
\* particle update, and every particle update precedes every drawing of a
\* particle.
C28_UpdateBeforeAnyDraw ==
    [][(frames' = frames + 1) =>
          /\ \A c \in Positions(frameLog', "classify") :
                 \A u \in Positions(frameLog', "update") : c < u
          /\ \A u \in Positions(frameLog', "update") :
                 \A d \in Positions(frameLog', "draw") : u < d]_vars

\* C28: within a frame the gesture is classified once, before any particle
\* is updated or drawn; every particle is drawn after its own update of
\* the same frame; the frame ends with scheduling the next callback, and a
\* step executes at most one frame.
C28_FrameOrder ==
    [][/\ frames' \in {frames, frames + 1}
       /\ (frames' = frames + 1) =>
              /\ Cardinality(Positions(frameLog', "classify")) = 1
              /\ \A c \in Positions(frameLog', "classify") :
                     \A k \in Positions(frameLog', "update")
                               \cup Positions(frameLog', "draw") : c < k
              /\ \A i \in 1 .. LoggedParticles :
                     \E u, d \in DOMAIN frameLog' :
                         /\ frameLog'[u] = Event("update", i)
                         /\ frameLog'[d] = Event("draw", i)
                         /\ u < d
              /\ frameLog'[Len(frameLog')] = Event("schedule", 0)]_vars

\* a closed frame whose log has the drawing of particle 1 ahead of the
\* update of particle 2
C28_Witness ==
    /\ lastOp = "frame" /\ frames = MaxFrames /\ handState = "closed"
    /\ \E d, u \in DOMAIN frameLog :
           /\ frameLog[d] = Event("draw", 1)
           /\ frameLog[u] = Event("update", 2)
           /\ d < u

\* this step is the completion of the i-th waiting performCompression call
Completes(i) ==
    /\ i \in DOMAIN im_runs
    /\ im_runs' = RemoveAt(im_runs, i)
    /\ im_compressed' = Attempts(im_runs[i], im_runs[i].scale, 0)

\* C29: image compression - the image a performCompression call publishes
\* has a base64 text strictly shorter than the original it was made from,
\* whatever the format, the quality and the scale.
C29_AlwaysSmaller ==
    [][\A i \in DOMAIN im_runs :
          Completes(i) => im_compressed'.len < im_runs[i].file.len]_vars

FGe(a, b) == ~a.nan /\ ~b.nan /\ a.v >= b.v

\* C25: particle view - with the particles on average more than 50 px
\* away from the anchor when the hand closes, the average distance of the
\* particles to the anchor after 30 consecutive closed frames at that
\* anchor is strictly below the average distance before the first of them.
C25_ClosedPullsIn ==
    (sim.phase = "closed" /\ sim.k = ClosedFrames
        /\ FGt(sim.d0, Num(50 * SCALE)))
    => FLt(AvgDist(particlesRef, handCenter), sim.d0)

C25_Witness ==
    /\ sim.phase = "closed" /\ sim.k = ClosedFrames /\ frames = ClosedFrames
    /\ handState = "closed" /\ handCenter.x = Num(0)
    /\ FGt(sim.d0, Num(300 * SCALE))
    /\ FLt(AvgDist(particlesRef, handCenter), Num(150 * SCALE))

\* C26: particle view - after the hand has been open at the anchor of the
\* preceding closed phase for the frames that follow it, the average
\* distance of the particles to the anchor is above what it was when the
\* hand opened, or every particle is at least 200 px away from the anchor.
C26_OpenPushesOut ==
    (sim.phase = "open" /\ sim.k = OpenFrames)
    => \/ FGt(AvgDist(particlesRef, handCenter), sim.d0)
       \/ \A i \in 1 .. Len(particlesRef) :
              FGe(AvgDist(<<particlesRef[i]>>, handCenter), Num(200 * SCALE))

\* the speed of a particle is a number not above 190 px per frame
SpeedWithin(p) == FGe(Num(190 * SCALE), FHypot(p.vx, p.vy))

\* C27: particle view - a particle whose speed is within 190 px per frame
\* before a frame is within it after the frame, whatever the gesture
\* state of the frame.
C27_SpeedBounded ==
    [][(frames' = frames + 1) =>
          \A i \in 1 .. Len(particlesRef) :
              SpeedWithin(particlesRef[i]) => SpeedWithin(particlesRef'[i])]_vars

\* C31: drawing view - the segment a pinching frame commits when a previous
\* anchor exists starts exactly at the previous anchor and ends at the
\* current anchor, also when a coordinate of the previous anchor is 0.
C31_SegmentFromPreviousAnchor ==
    [][(PinchFrameD /\ ~db_lastPoint.none
                    /\ Len(db_layer') = Len(db_layer) + 1) =>
          /\ NewStroke.from = <<db_lastPoint.x, db_lastPoint.y>>
          /\ NewStroke.to = <<MapX(db_lastDet'.lm.l8, db_canvas),
                              MapY(db_lastDet'.lm.l8, db_canvas)>>]_vars

\* position and velocity of a particle are numbers
Finite(p) == ~p.x.nan /\ ~p.y.nan /\ ~p.vx.nan /\ ~p.vy.nan

\* C32: particle view - the repulsion of the Open state is well-defined at
\* every particle position, the anchor itself included: no frame makes the
\* position or the velocity of a particle a non-number.
C32_ForceWellDefined ==
    [][(frames' = frames + 1) =>
          \A i \in 1 .. Len(particlesRef) :
              Finite(particlesRef[i]) => Finite(particlesRef'[i])]_vars

\* C33: converter view - the result that is displayed, and the result that
\* is downloaded, was made from the selected file for the selected target
\* format, whatever the order of selections, format changes, removals and
\* completions of a conversion.
C33_ResultMatchesSelection ==
    /\ cv_resultContent # NoContent =>
           /\ cv_file # NoDoc
           /\ cv_resultContent = Content(cv_file, cv_targetFormat)
    /\ cv_download # NoDownload =>
           /\ cv_download.extension = Extension(cv_download.content.as)
           /\ cv_download.stem = cv_download.content.of

RECURSIVE ScaleAt(_, _)
\* the scale of attempt k of a call that starts at the given scale
ScaleAt(scale, k) ==
    IF k = 0 THEN scale ELSE (ScaleAt(scale, k - 1) * 95) \div 100

\* what attempt k of a call encodes
AttemptAt(run, k) ==
    LET finalW == (run.file.width * ScaleAt(run.scale, k)) \div ScaleUnit
        finalH == (run.file.height * ScaleAt(run.scale, k)) \div ScaleUnit
    IN  CompressedImage(
            EncodedLength(run.file, run.format, run.quality, finalW, finalH),
            finalW, finalH)

\* the i-th waiting performCompression call finishes in this step
Finishes(i) ==
    /\ i \in DOMAIN im_runs
    /\ lastOp' = "compressed"
    /\ im_runs' = RemoveAt(im_runs, i)

\* C34: image compression - a performCompression call publishes one of at
\* most 10 attempts, attempt k encoded at scale compressScale * 0.95^k: the
\* first attempt that is smaller than the original, or else the tenth; it
\* always sets compressedImage and resets isCompressing.
C34_CompressionTerminates ==
    [][\A i \in DOMAIN im_runs :
          Finishes(i) =>
              /\ ~im_isCompressing'
              /\ \E k \in 0 .. MAX_ATTEMPTS - 1 :
                    /\ im_compressed' = AttemptAt(im_runs[i], k)
                    /\ \A j \in 0 .. k - 1 :
                          AttemptAt(im_runs[i], j).len >= im_runs[i].file.len
                    /\ \/ AttemptAt(im_runs[i], k).len < im_runs[i].file.len
                       \/ k = MAX_ATTEMPTS - 1]_vars

\* a call has finished with an attempt that is neither the first nor the
\* tenth one
C34_Witness ==
    /\ lastOp = "compressed" /\ ~im_isCompressing
    /\ \E f \in ImageFiles, fmt \in Formats, q \in Qualities, sc \in Scales :
          \E k \in 1 .. MAX_ATTEMPTS - 2 :
              /\ f = im_file
              /\ im_compressed = AttemptAt(Run(f, fmt, q, sc), k)
              /\ im_compressed # AttemptAt(Run(f, fmt, q, sc), 0)
              /\ im_compressed.len < f.len

\* what a performCompression call publishes for the current selections
Latest ==
    Attempts(Run(im_file, im_format, im_quality, im_scale), im_scale, 0)

\* C35: image compression - a run starts only when the timer of the last
\* change of mode, file, format, quality or scale fires, a newer change
\* replaces the pending timer without starting a run, and once the last of
\* overlapping runs has finished the displayed compressed image is the one
\* computed from the latest selections.
C35_LatestSettingsWin ==
    [][/\ Len(im_runs') > Len(im_runs) => (im_timer /\ lastOp' = "timer")
       /\ (lastOp' \in {"fileChange", "mode", "setting"}
              /\ Debounce(im_mode', im_file'))
             => (im_timer' /\ im_runs' = im_runs)
       /\ (lastOp' = "compressed" /\ im_runs' = <<>> /\ ~im_timer'
              /\ im_mode' = "compress")
             => im_compressed' = Latest']_vars

\* a result has either an image and no error, or an error and no image
WellFormed(r) ==
    /\ r.state = "fulfilled"
    /\ \/ r.image # "" /\ r.error = <<>>
       \/ r.image = "" /\ r.error # <<>>

\* C36: portrait series - with an API key the promise of
\* generatePortraitSeries never rejects: it resolves with exactly one
\* result per entry of PORTRAIT_STYLES, in the order of the styles, each
\* with either an image and no error or an error and no image, and the
\* settling of one style leaves the results of the other styles as they are.
C36_SeriesAlwaysResolves ==
    [][/\ (ps_calls # <<>> /\ ps_calls' = <<>>) =>
             /\ lastOp' = "generated"
             /\ PromiseAll(ps_calls) = "fulfilled"
             /\ Len(ps_results') = 6
             /\ \A i \in 1 .. 6 :
                   /\ ps_results'[i].styleId = PORTRAIT_STYLES[i]
                   /\ WellFormed(ps_results'[i])
                   /\ ps_results'[i] = ps_calls[i]
       /\ lastOp' = "generateFailed" => ~hasApiKey
       /\ lastOp' = "styleSettled" =>
             \E i \in DOMAIN ps_calls :
                 /\ ps_calls[i].state = "pending" /\ WellFormed(ps_calls'[i])
                 /\ \A j \in DOMAIN ps_calls \ {i} : ps_calls'[j] = ps_calls[j]]_vars

\* a series has resolved with an image for the first style although the
\* second style was rejected and the third returned no image
C36_Witness ==
    /\ lastOp = "generated" /\ Len(ps_results) = 6
    /\ ps_results[1].image # ""
    /\ ps_results[2].error = <<"quota exceeded">>
    /\ ps_results[3].error = <<"No image returned">>
    /\ ps_results[4].error = <<"generation failed">>

\* C37: particle view - the collection has exactly 300 particles before
\* and after every step (frames, starts, stops, unmount), and no step
\* changes the radius or the base colour of a particle.
C37_EnsembleFixed ==
    [][/\ Len(particlesRef) = 300
       /\ Len(particlesRef') = 300
       /\ \A i \in 1 .. 300 :
             /\ particlesRef'[i].size = particlesRef[i].size
             /\ particlesRef'[i].color = particlesRef[i].color]_vars

\* after a frame of the first camera session and a stop, the first frame
\* of the second session has run with a fist, and the particles have moved
C37_Witness ==
    /\ lastOp = "loadeddata" /\ frames = 2 /\ streams = 2
    /\ handState = "closed"
    /\ particlesRef[1].x # Ensemble[1].x
    /\ particlesRef[300].vx # Ensemble[300].vx

====
